---------------------------- MODULE Spec2Model ----------------------------
(***************************************************************************)
(* Verification model of the moonlight-web-stream media pipeline: the      *)
(* Annex-B stream translators, the WebCodecs decoder pipe, the media       *)
(* source (fragmented MP4) decoder with its ByteBuffer, the OpenH264       *)
(* software decoder pipe, the canvas renderer, the video pipeline builder, *)
(* and the Opus decoder binding with its audio decoder pipe.               *)
(*                                                                         *)
(* Each component owns one record-valued variable.  A specification runs   *)
(* one component and leaves the other variables at their initial value.    *)
(* Byte strings are sequences of integers 0..255; indices in the source    *)
(* are 0-based, the helpers At and Slice do the conversion.                *)
(***************************************************************************)
EXTENDS Integers, Sequences, FiniteSets, TLC

VARIABLES
    tr,     \* a translator under test: state, last unit, last result
    vdp,    \* VideoDecoderPipe with its VideoDecoder
    mse,    \* MediaSourceDecoder with its MediaSource / SourceBuffer
    oh,     \* OpenH264DecoderPipe with its decoder module
    bp,     \* buildVideoPipeline: environment answers, options, result
    mp4,    \* a ByteBuffer that putVideoFrameSegment wrote one segment to
    cv,     \* CanvasFrameDrawPipe
    od,     \* OpusMultistreamDecoder
    ap,     \* OpusAudioDecoderPipe with its Emscripten module
    bb      \* a ByteBuffer under put, get, flip and reset

vars == <<tr, vdp, mse, oh, bp, mp4, cv, od, ap, bb>>

(***************************************************************************)
(* Bounds of the model.                                                    *)
(***************************************************************************)
\* longest SPS body (bytes after the NAL header) drawn for the translator
MaxSpsBody == 3
\* longest PPS body drawn for the translator
MaxPpsBody == 1
\* longest IDR slice body drawn for the translator
MaxIdrBody == 2

(***************************************************************************)
(* JavaScript values.                                                      *)
(***************************************************************************)
\* the value of a typed-array read outside the array
Undefined == -1
\* a null reference where the source holds a Uint8Array
NullBytes == <<-1>>

\* Body(value), with value computed once however often Body reads it
Bind(value, Body(_)) ==
    CHOOSE result \in { Body(x) : x \in { value } } : TRUE

\* buffer[i], 0-based
At(buffer, i) ==
    IF i >= 0 /\ i < Len(buffer) THEN buffer[i + 1] ELSE Undefined

\* ToInt32 of a typed-array read, as the bit operators apply it
ToInt(v) ==
    IF v = Undefined THEN 0 ELSE v

\* Uint8Array.prototype.slice(begin, end), 0-based, end exclusive
Slice(buffer, begin, end) ==
    SubSeq(buffer, begin + 1, end)

\* ByteBuffer.putU32 on a big-endian buffer of 4 bytes
PutU32BE(n) ==
    << (n \div 16777216) % 256, (n \div 65536) % 256, (n \div 256) % 256, n % 256 >>

(***************************************************************************)
(* numToHex and the avc1 codec string (a sequence of characters).          *)
(***************************************************************************)
HexDigits ==
    << "0", "1", "2", "3", "4", "5", "6", "7",
       "8", "9", "a", "b", "c", "d", "e", "f" >>

RECURSIVE toString16(_)
toString16(n) ==
    IF n < 16 THEN << HexDigits[n + 1] >>
    ELSE toString16(n \div 16) \o << HexDigits[(n % 16) + 1] >>

\* a mutation of numToHex: the digits as toString(16) gives them, unpadded
numToHexUnpadded(n) ==
    toString16(n)

numToHex(n) ==
    LET hex == toString16(n)
    IN  IF Len(hex) = 1 THEN << "0" >> \o hex ELSE hex

(***************************************************************************)
(* Annex-B stream translator (annex_b_translator).                         *)
(*                                                                         *)
(* A translator is the record                                              *)
(*   kind            "h264" or "h265"                                      *)
(*   hasConfig       decoderConfig is not null                             *)
(*   codec           decoderConfig.codec, a sequence of characters         *)
(*   description     decoderConfig.description, bytes or NullBytes         *)
(*   hasDescription, vps, sps, pps   the fields of the subclass            *)
(*   frameCapacity   currentFrame.length                                   *)
(* The bytes of currentFrame below currentFrameSize are carried through    *)
(* one call as the growing sequence "frame"; every call rewrites them from *)
(* offset 0, so nothing of them outlives a call.                           *)
(***************************************************************************)
START_CODE_SHORT == << 0, 0, 1 >>
START_CODE_LONG == << 0, 0, 0, 1 >>

startsWith(buffer, position, check) ==
    \A i \in 0 .. (Len(check) - 1) : At(buffer, position + i) = check[i + 1]

FrameCapacityInitial == 1000

NewTranslator(kind) ==
    [ kind |-> kind,
      hasConfig |-> TRUE,
      codec |-> << "undefined" >>,
      description |-> NullBytes,
      hasDescription |-> FALSE,
      vps |-> NullBytes,
      sps |-> NullBytes,
      pps |-> NullBytes,
      frameCapacity |-> FrameCapacityInitial ]

setBaseConfig(t, codec, description) ==
    [ t EXCEPT !.hasConfig = TRUE, !.codec = codec, !.description = description ]

checkFrameBufferSize(t, currentSize, requiredExtra) ==
    IF currentSize + requiredExtra > t.frameCapacity
    THEN [ t EXCEPT !.frameCapacity = (currentSize + requiredExtra) * 2 ]
    ELSE t

h264NalType(header) ==
    ToInt(header) % 32

h265NalType(header) ==
    (ToInt(header) \div 2) % 64

\* The four getU8 reads of a ByteBuffer over the SPS: a read at or past the
\* end of the buffer throws, and so does a header that is not an SPS.
h264ParseSps(sps) ==
    IF Len(sps) < 1 \/ h264NalType(At(sps, 0)) # 7 \/ Len(sps) < 4
    THEN [ thrown |-> TRUE, profileIdc |-> 0, constraintFlags |-> 0,
           levelIdc |-> 0, avc1 |-> << >> ]
    ELSE [ thrown |-> FALSE,
           profileIdc |-> sps[2],
           constraintFlags |-> sps[3],
           levelIdc |-> sps[4],
           avc1 |-> << "a", "v", "c", "1", "." >> \o numToHex(sps[2])
                      \o numToHex(sps[3]) \o numToHex(sps[4]) ]

\* The value a Uint8Array element takes when it is assigned v
StoreU8(v) ==
    ToInt(v) % 256

\* The array is allocated with "size" zero bytes and filled from index 0; what
\* the writes do not reach stays 0.
h264MakeAvcC(sps, pps) ==
    LET size == 7 + 2 + Len(sps) + 1 + 2 + Len(pps)
        spsAt == 8
        ppsCountAt == spsAt + Len(sps)
        ppsAt == ppsCountAt + 3
    IN  [ i \in 1 .. size |->
            IF i = 1 THEN 1
            ELSE IF i = 2 THEN StoreU8(At(sps, 1))
            ELSE IF i = 3 THEN StoreU8(At(sps, 2))
            ELSE IF i = 4 THEN StoreU8(At(sps, 3))
            ELSE IF i = 5 THEN 255
            ELSE IF i = 6 THEN 225
            ELSE IF i = 7 THEN StoreU8(Len(sps) \div 256)
            ELSE IF i = 8 THEN Len(sps) % 256
            ELSE IF i <= spsAt + Len(sps) THEN sps[i - spsAt]
            ELSE IF i = ppsCountAt + 1 THEN 1
            ELSE IF i = ppsCountAt + 2 THEN StoreU8(Len(pps) \div 256)
            ELSE IF i = ppsCountAt + 3 THEN Len(pps) % 256
            ELSE IF i <= ppsAt + Len(pps) THEN pps[i - ppsAt]
            ELSE 0 ]

\* a mutation of HvcCArray: the count of NALs written as one byte
HvcCArrayByteCount(nalUnitType, set) ==
    << nalUnitType, 1, StoreU8(Len(set) \div 256), Len(set) % 256 >> \o set

\* One parameter-set array of the hvcC record
HvcCArray(nalUnitType, set) ==
    << nalUnitType, 0, 1, StoreU8(Len(set) \div 256), Len(set) % 256 >> \o set

h265MakeHvcC(vps, sps, pps) ==
    << 1,
       (ToInt(At(sps, 1)) \div 2) % 64,
       0, 0, 0, 0,
       0, 0, 0, 0, 0, 0,
       StoreU8(At(sps, 12)),
       240, 0,
       252, 253, 248, 248,
       0, 0,
       15, 3 >>
    \o HvcCArray(32, vps) \o HvcCArray(33, sps) \o HvcCArray(34, pps)

\* startProcessChunk without the hasDescription latch
startProcessChunkKeyOnly(t, unit) ==
    unit.type = "key"

startProcessChunk(t, unit) ==
    unit.type = "key" \/ t.hasDescription

H264onChunkUnit(t, slice) ==
    LET nalType == h264NalType(At(slice, 0))
    IN  IF nalType = 7 THEN
            LET t1 == [ t EXCEPT !.sps = slice ]
                parsed == h264ParseSps(slice)
            IN  IF parsed.thrown
                THEN [ t |-> t1, include |-> FALSE, thrown |-> TRUE ]
                ELSE [ t |-> [ t1 EXCEPT !.codec = parsed.avc1 ],
                       include |-> FALSE, thrown |-> FALSE ]
        ELSE IF nalType = 8 THEN
            [ t |-> [ t EXCEPT !.pps = slice ], include |-> FALSE, thrown |-> FALSE ]
        ELSE [ t |-> t, include |-> TRUE, thrown |-> FALSE ]

H265onChunkUnit(t, slice) ==
    LET nalType == h265NalType(At(slice, 0))
    IN  IF nalType = 32 THEN
            [ t |-> [ t EXCEPT !.vps = slice ], include |-> FALSE, thrown |-> FALSE ]
        ELSE IF nalType = 33 THEN
            [ t |-> [ t EXCEPT !.sps = slice ], include |-> FALSE, thrown |-> FALSE ]
        ELSE IF nalType = 34 THEN
            [ t |-> [ t EXCEPT !.pps = slice ], include |-> FALSE, thrown |-> FALSE ]
        ELSE [ t |-> t, include |-> TRUE, thrown |-> FALSE ]

onChunkUnit(t, slice) ==
    IF t.kind = "h264" THEN H264onChunkUnit(t, slice) ELSE H265onChunkUnit(t, slice)

H264endChunk(t) ==
    IF t.pps # NullBytes /\ t.sps # NullBytes
    THEN [ t |-> [ t EXCEPT !.description = h264MakeAvcC(t.sps, t.pps),
                            !.sps = NullBytes,
                            !.pps = NullBytes,
                            !.hasDescription = TRUE ],
           reconfigure |-> TRUE ]
    ELSE [ t |-> t, reconfigure |-> FALSE ]

H265endChunk(t) ==
    IF t.vps # NullBytes /\ t.sps # NullBytes /\ t.pps # NullBytes
    THEN [ t |-> [ t EXCEPT !.description = h265MakeHvcC(t.vps, t.sps, t.pps),
                            !.vps = NullBytes,
                            !.sps = NullBytes,
                            !.pps = NullBytes,
                            !.hasDescription = TRUE ],
           reconfigure |-> TRUE ]
    ELSE [ t |-> t, reconfigure |-> FALSE ]

endChunk(t) ==
    IF t.kind = "h264" THEN H264endChunk(t) ELSE H265endChunk(t)

\* ScanNals with the 3-byte start code left out of the scan
RECURSIVE ScanNalsLongOnly(_, _, _)
ScanNalsLongOnly(data, unitBegin, currentPosition) ==
    Bind(<< unitBegin, currentPosition >>, LAMBDA at :
        IF at[2] < Len(data) THEN
            IF startsWith(data, at[2], START_CODE_LONG) THEN
                ( IF at[2] # 0
                  THEN << Slice(data, at[1], at[2]) >>
                  ELSE << >> )
                \o ScanNalsLongOnly(data, at[2] + 4, at[2] + 4)
            ELSE ScanNalsLongOnly(data, at[1], at[2] + 1)
        ELSE << Slice(data, at[1], at[2]) >>)

\* The slices the scanning loop hands to handleStartCode, in order: one at
\* every start code that is not at offset 0, and one for the rest of the data.
RECURSIVE ScanNals(_, _, _)
ScanNals(data, unitBegin, currentPosition) ==
    Bind(<< unitBegin, currentPosition >>, LAMBDA at :
        IF at[2] < Len(data) THEN
            LET long == startsWith(data, at[2], START_CODE_LONG)
                short == startsWith(data, at[2], START_CODE_SHORT)
                startCodeLength == IF long THEN Len(START_CODE_LONG)
                                   ELSE Len(START_CODE_SHORT)
            IN  IF long \/ short THEN
                    ( IF at[2] # 0
                      THEN << Slice(data, at[1], at[2]) >>
                      ELSE << >> )
                    \o ScanNals(data, at[2] + startCodeLength, at[2] + startCodeLength)
                ELSE ScanNals(data, at[1], at[2] + 1)
        ELSE << Slice(data, at[1], at[2]) >>)

\* acc = [t, frame, thrown]: the translator, the bytes of currentFrame below
\* currentFrameSize, and whether an exception has left the call.
handleStartCode(before, slice) ==
    Bind(before, LAMBDA acc :
        IF acc.thrown THEN acc
        ELSE
            Bind(onChunkUnit(acc.t, slice), LAMBDA r :
                IF r.thrown THEN [ acc EXCEPT !.t = r.t, !.thrown = TRUE ]
                ELSE IF r.include THEN
                    [ t |-> checkFrameBufferSize(r.t, Len(acc.frame), Len(slice) + 4),
                      frame |-> acc.frame \o PutU32BE(Len(slice)) \o slice,
                      thrown |-> FALSE ]
                ELSE [ acc EXCEPT !.t = r.t ]))

RECURSIVE HandleAll(_, _)
HandleAll(acc, slices) ==
    Bind(slices, LAMBDA rest :
        IF rest = << >> THEN acc
        ELSE HandleAll(handleStartCode(acc, Head(rest)), Tail(rest)))

\* CodecStreamTranslator.submitDecodeUnit: the translator afterwards and the
\* value returned (thrown: an exception left the call instead).
TranslatorSubmit(t, unit) ==
    IF ~t.hasConfig THEN
        [ t |-> t,
          res |-> [ error |-> TRUE, thrown |-> FALSE, configure |-> FALSE,
                    chunk |-> NullBytes ] ]
    ELSE IF ~startProcessChunk(t, unit) THEN
        [ t |-> t,
          res |-> [ error |-> FALSE, thrown |-> FALSE, configure |-> FALSE,
                    chunk |-> NullBytes ] ]
    ELSE
        Bind(HandleAll([ t |-> t, frame |-> << >>, thrown |-> FALSE ],
                       ScanNals(unit.data, 0, 0)),
             LAMBDA acc :
                IF acc.thrown THEN
                    [ t |-> acc.t,
                      res |-> [ error |-> FALSE, thrown |-> TRUE, configure |-> FALSE,
                                chunk |-> NullBytes ] ]
                ELSE
                    Bind(endChunk(acc.t), LAMBDA done :
                        [ t |-> done.t,
                          res |-> [ error |-> FALSE, thrown |-> FALSE,
                                    configure |-> done.reconfigure,
                                    chunk |-> acc.frame ] ]))

NoResult ==
    [ error |-> FALSE, thrown |-> FALSE, configure |-> FALSE, chunk |-> NullBytes ]

(***************************************************************************)
(* Encoded video units.                                                    *)
(***************************************************************************)
\* the duration every unit of the stream announces, in microseconds
UnitDurationMicroseconds == 16667

Unit(type, data, timestampMicroseconds) ==
    [ type |-> type, data |-> data,
      timestampMicroseconds |-> timestampMicroseconds,
      durationMicroseconds |-> UnitDurationMicroseconds ]

\* NAL units of an H.264 stream: header byte, then the body
H264_SPS == << 103, 66, 224, 30 >>
H264_SPS_HIGH == << 103, 100, 0, 50, 172 >>
H264_PPS == << 104, 206, 60, 128 >>
H264_IDR == << 101, 136 >>
H264_SLICE == << 65, 154 >>

\* NAL units of an H.265 stream: two header bytes, then the body
H265_VPS == << 64, 1, 12 >>
H265_SPS == << 66, 1, 1, 1, 96, 0, 0, 3, 0, 144, 0, 0, 93, 160 >>
H265_PPS == << 68, 1, 193 >>
H265_IDR == << 38, 1, 175 >>
H265_SLICE == << 2, 1, 208 >>

\* Annex-B data: every NAL behind a start code of 3 or 4 bytes
RECURSIVE AnnexB(_, _)
AnnexB(startCodeLengths, nals) ==
    IF nals = << >> THEN << >>
    ELSE ( IF Head(startCodeLengths) = 4 THEN START_CODE_LONG ELSE START_CODE_SHORT )
         \o Head(nals) \o AnnexB(Tail(startCodeLengths), Tail(nals))

H264Units ==
    { Unit("key", AnnexB(<< 4, 4, 3 >>, << H264_SPS, H264_PPS, H264_IDR >>), 0),
      Unit("key", AnnexB(<< 4, 4, 3 >>, << H264_SPS_HIGH, H264_PPS, H264_IDR >>), 0),
      Unit("key", AnnexB(<< 4 >>, << H264_IDR >>), 0),
      Unit("key", AnnexB(<< 4, 3 >>, << H264_SPS, H264_IDR >>), 0),
      Unit("key", AnnexB(<< 3, 3 >>, << H264_PPS, H264_IDR >>), 0),
      Unit("key", AnnexB(<< 4, 4 >>, << H264_SPS, H264_PPS >>), 0),
      Unit("delta", AnnexB(<< 4 >>, << H264_SLICE >>), 0) }

H265Units ==
    { Unit("key", AnnexB(<< 4, 4, 4, 3 >>,
                         << H265_VPS, H265_SPS, H265_PPS, H265_IDR >>), 0),
      Unit("key", AnnexB(<< 4, 4, 3 >>, << H265_SPS, H265_PPS, H265_IDR >>), 0),
      Unit("key", AnnexB(<< 4 >>, << H265_IDR >>), 0),
      Unit("delta", AnnexB(<< 4 >>, << H265_SLICE >>), 0) }

UnitsOf(kind) ==
    IF kind = "h264" THEN H264Units ELSE H265Units

(***************************************************************************)
(* The translator on its own: units of the catalogue, then one key unit    *)
(* SPS, PPS, IDR whose three NALs and three start codes are drawn freely.  *)
(***************************************************************************)
\* tr.configured: some submitDecodeUnit has returned configure;
\* tr.configuredBefore: one had before the last unit was submitted.
\* units submitted to one translator in a run
MaxTrSteps == 3

RECURSIVE SeqsUpTo(_, _)
SeqsUpTo(alphabet, n) ==
    IF n = 0 THEN { << >> }
    ELSE LET shorter == SeqsUpTo(alphabet, n - 1)
         IN  shorter \cup { Append(q, b) : q \in shorter, b \in alphabet }

SpsChoices ==
    { << 103 >> \o body : body \in { q \in SeqsUpTo({ 0, 66 }, MaxSpsBody) : Len(q) >= 2 } }

PpsChoices ==
    { << 104 >> \o body : body \in SeqsUpTo({ 0, 1 }, MaxPpsBody) }

IdrChoices ==
    { << 101 >> \o body : body \in SeqsUpTo({ 0, 1 }, MaxIdrBody) }

\* values of profile_idc, constraint flags and level_idc: one and two hex
\* digits, digits and letters, the least and the greatest byte
SpsBytes ==
    { 0, 1, 9, 10, 15, 16, 50, 100, 171, 255 }

\* SPS NALs: header, profile_idc, constraint flags, level_idc, one more byte
SpsProfileChoices ==
    { << 103, p, c, l, 172 >> : p \in SpsBytes, c \in SpsBytes, l \in SpsBytes }

\* H.265 parameter sets: two header bytes and a body
VpsChoices ==
    { H265_VPS, << 64, 1 >>, << 64, 1, 12, 1, 255, 255, 1, 96 >> }

H265SpsChoices ==
    { H265_SPS, << 66, 1, 1 >>, << 66, 1, 2, 3 >> }

H265PpsChoices ==
    { H265_PPS, << 68, 1 >>, << 68, 1, 193, 5 >> }

NoParts ==
    [ V |-> << >>, S |-> << >>, P |-> << >>, I |-> << >>, startCodes |-> << >> ]

TrInit ==
    \E kind \in { "h264", "h265" } :
        tr = [ t |-> NewTranslator(kind), step |-> 0, parts |-> NoParts,
               unit |-> Unit("none", << >>, 0), res |-> NoResult,
               configured |-> FALSE, configuredBefore |-> FALSE ]

TrIdle ==
    tr = [ t |-> NewTranslator("h264"), step |-> 0, parts |-> NoParts,
           unit |-> Unit("none", << >>, 0), res |-> NoResult,
           configured |-> FALSE, configuredBefore |-> FALSE ]

TrSubmitCatalog(unit) ==
    /\ tr.step < MaxTrSteps
    /\ LET r == TranslatorSubmit(tr.t, unit)
       IN  tr' = [ t |-> r.t, step |-> tr.step + 1, parts |-> NoParts,
                   unit |-> unit, res |-> r.res,
                   configured |-> tr.configured \/ r.res.configure,
                   configuredBefore |-> tr.configured ]
    /\ UNCHANGED << vdp, mse, oh, bp, mp4, cv, od, ap, bb >>

\* A drawn unit ends the run: its successors would only repeat the catalogue.
TrSubmitParts(S, P, I, startCodes) ==
    /\ tr.step < MaxTrSteps
    /\ tr.t.kind = "h264"
    /\ LET unit == Unit("key", AnnexB(startCodes, << S, P, I >>), 0)
           r == TranslatorSubmit(tr.t, unit)
       IN  tr' = [ t |-> r.t, step |-> MaxTrSteps,
                   parts |-> [ V |-> << >>, S |-> S, P |-> P, I |-> I,
                               startCodes |-> startCodes ],
                   unit |-> unit, res |-> r.res,
                   configured |-> tr.configured \/ r.res.configure,
                   configuredBefore |-> tr.configured ]
    /\ UNCHANGED << vdp, mse, oh, bp, mp4, cv, od, ap, bb >>

\* A drawn H.265 key unit VPS, SPS, PPS, IDR ends the run as well.
TrSubmitH265Parts(V, S, P, startCodes) ==
    /\ tr.step < MaxTrSteps
    /\ tr.t.kind = "h265"
    /\ LET unit == Unit("key", AnnexB(startCodes, << V, S, P, H265_IDR >>), 0)
           r == TranslatorSubmit(tr.t, unit)
       IN  tr' = [ t |-> r.t, step |-> MaxTrSteps,
                   parts |-> [ V |-> V, S |-> S, P |-> P, I |-> H265_IDR,
                               startCodes |-> startCodes ],
                   unit |-> unit, res |-> r.res,
                   configured |-> tr.configured \/ r.res.configure,
                   configuredBefore |-> tr.configured ]
    /\ UNCHANGED << vdp, mse, oh, bp, mp4, cv, od, ap, bb >>

(***************************************************************************)
(* VideoDecoderPipe (video_decoder_pipe.ts) and the platform VideoDecoder  *)
(* it owns.                                                                *)
(*                                                                         *)
(* vdp is the record                                                       *)
(*   fps, errored, decoderSetupFinished, requestedIdr, needsKeyFrame,      *)
(*   bufferedUnits            the fields of the pipe                       *)
(*   hasConfig, configVariant this.config: null or the probe that matched  *)
(*   translator               "none", "h264" or "h265"                     *)
(*   t                        the translator (read when translator # none);*)
(*                            its decoderConfig is the pipe's config object*)
(*   setupCodec, setupPhase   setup's argument; "new", "pending", "done"   *)
(*   decoder                  state, decodeQueueSize, keyChunkRequired     *)
(*   baseHasPoll              the base implements pollRequestIdr           *)
(*   cleaned                  cleanup has been called                      *)
(*   op, opUnit, opResult, calls, thrown                                   *)
(*                            the last operation, its unit, its result,    *)
(*                            the decoder calls it made, in order, and     *)
(*                            whether an exception left it                 *)
(*   processed                the units the last operation took past the   *)
(*                            buffering, to the translator and decoder     *)
(***************************************************************************)
\* decodeQueueSize the decoder is let to reach
MaxQueue == 15
\* units buffered while setup is pending
MaxBuffered == 2

\* fps values of setup
FpsChoices == { 60 }

SetupCodecs == { "H264", "H265", "AV1_MAIN8" }

\* the three probes of trySetConfig, in order:
\* 1 {codec, prefer-hardware, optimizeForLatency}, 2 {codec, optimizeForLatency}, 3 {codec}
ConfigVariants == << 1, 2, 3 >>

VIDEO_DECODER_CODECS_IN_BAND(codec) ==
    IF codec = "H264" THEN << "avc3.42E01E" >>
    ELSE IF codec = "H265" THEN << "hev1.1.6.L93.B0" >>
    ELSE << "av01.0.04M.08" >>

VIDEO_DECODER_CODECS_OUT_OF_BAND(codec) ==
    IF codec = "H264" THEN << "avc1.42E01E" >>
    ELSE IF codec = "H265" THEN << "hvc1.1.6.L93.B0" >>
    ELSE << "av01.0.04M.08" >>

NoUnit == Unit("none", << >>, 0)

\* a call of a decoder method; timestamp and duration are those of the chunk
\* given to decode, and -1 for the other methods
Call(name, type, data) ==
    [ name |-> name, type |-> type, data |-> data, timestamp |-> -1,
      duration |-> -1 ]

\* an EncodedVideoChunk made without the timestamp and duration of the unit
ChunkWithoutTimes(type, timestamp, duration, data) ==
    [ type |-> type, timestamp |-> 0, duration |-> 0, data |-> data ]

\* new EncodedVideoChunk({ type, timestamp, duration, data })
EncodedVideoChunk(type, timestamp, duration, data) ==
    [ type |-> type, timestamp |-> timestamp, duration |-> duration,
      data |-> data ]

\* the record of decoder.decode(chunk)
DecodeCall(chunk) ==
    [ Call("decode", chunk.type, chunk.data)
        EXCEPT !.timestamp = chunk.timestamp, !.duration = chunk.duration ]

NewDecoder ==
    [ state |-> "unconfigured", decodeQueueSize |-> 0, keyChunkRequired |-> TRUE ]

NewVdp(baseHasPoll) ==
    [ fps |-> 0,
      errored |-> FALSE,
      hasConfig |-> FALSE,
      configVariant |-> 0,
      translator |-> "none",
      t |-> NewTranslator("h264"),
      decoderSetupFinished |-> FALSE,
      requestedIdr |-> FALSE,
      needsKeyFrame |-> TRUE,
      bufferedUnits |-> << >>,
      setupCodec |-> "none",
      setupPhase |-> "new",
      decoder |-> NewDecoder,
      baseHasPoll |-> baseHasPoll,
      cleaned |-> FALSE,
      op |-> "new",
      opUnit |-> NoUnit,
      opResult |-> FALSE,
      calls |-> << >>,
      processed |-> << >>,
      thrown |-> FALSE ]

\* The platform decoder.  Every method throws InvalidStateError on a closed
\* decoder; decode also throws unless the decoder is configured, and throws
\* DataError for a delta chunk while a key chunk is required.
DecoderReset(pipe) ==
    Bind(pipe, LAMBDA v :
        IF v.thrown THEN v
        ELSE IF v.decoder.state = "closed"
            THEN [ v EXCEPT !.calls = Append(@, Call("reset", "", << >>)),
                            !.thrown = TRUE ]
        ELSE [ v EXCEPT !.calls = Append(@, Call("reset", "", << >>)),
                        !.decoder = NewDecoder ])

DecoderConfigure(pipe, description) ==
    Bind(pipe, LAMBDA v :
        IF v.thrown THEN v
        ELSE IF v.decoder.state = "closed"
            THEN [ v EXCEPT !.calls = Append(@, Call("configure", "", description)),
                            !.thrown = TRUE ]
        ELSE [ v EXCEPT !.calls = Append(@, Call("configure", "", description)),
                        !.decoder.state = "configured",
                        !.decoder.keyChunkRequired = TRUE ])

DecoderDecode(pipe, chunk) ==
    Bind(pipe, LAMBDA v :
        IF v.thrown THEN v
        ELSE IF v.decoder.state # "configured"
                \/ (chunk.type # "key" /\ v.decoder.keyChunkRequired)
            THEN [ v EXCEPT !.calls = Append(@, DecodeCall(chunk)),
                            !.thrown = TRUE ]
        ELSE [ v EXCEPT !.calls = Append(@, DecodeCall(chunk)),
                        !.decoder.decodeQueueSize = @ + 1,
                        !.decoder.keyChunkRequired = FALSE ])

DecoderClose(pipe) ==
    Bind(pipe, LAMBDA v :
        IF v.thrown THEN v
        ELSE IF v.decoder.state = "closed"
            THEN [ v EXCEPT !.calls = Append(@, Call("close", "", << >>)),
                            !.thrown = TRUE ]
        ELSE [ v EXCEPT !.calls = Append(@, Call("close", "", << >>)),
                        !.decoder.state = "closed",
                        !.decoder.decodeQueueSize = 0 ])

\* VideoDecoderPipe.reset that leaves needsKeyFrame as it is
VdpResetKeepingKeyFrame(pipe) ==
    Bind(pipe, LAMBDA v :
        IF v.translator = "none" THEN
            Bind(DecoderReset(v), LAMBDA r :
                IF r.thrown THEN r
                ELSE IF r.hasConfig THEN DecoderConfigure(r, NullBytes)
                ELSE r)
        ELSE v)

\* VideoDecoderPipe.reset (private)
VdpReset(pipe) ==
    Bind(pipe, LAMBDA v :
        IF v.translator = "none" THEN
            Bind(DecoderReset(v), LAMBDA r :
                IF r.thrown THEN r
                ELSE IF r.hasConfig
                    THEN DecoderConfigure([ r EXCEPT !.needsKeyFrame = TRUE ], NullBytes)
                ELSE [ r EXCEPT !.needsKeyFrame = TRUE ])
        ELSE v)

\* the part of submitDecodeUnit behind the buffering: translate and decode
VdpProcess(pipe, unit) ==
    Bind([ pipe EXCEPT !.processed = Append(@, unit) ], LAMBDA v :
        IF v.translator # "none" THEN
            Bind(TranslatorSubmit(v.t, unit), LAMBDA r :
                IF r.res.thrown THEN [ v EXCEPT !.t = r.t, !.thrown = TRUE ]
                ELSE IF r.res.error THEN [ v EXCEPT !.t = r.t, !.errored = TRUE ]
                ELSE IF r.res.chunk = NullBytes THEN [ v EXCEPT !.t = r.t ]
                ELSE IF r.res.configure THEN
                    Bind(DecoderConfigure(DecoderReset([ v EXCEPT !.t = r.t ]),
                                          r.t.description),
                         LAMBDA b :
                            IF b.thrown THEN b
                            ELSE DecoderDecode(
                                    [ b EXCEPT !.requestedIdr = FALSE ],
                                    EncodedVideoChunk(unit.type,
                                                      unit.timestampMicroseconds,
                                                      unit.durationMicroseconds,
                                                      r.res.chunk)))
                ELSE DecoderDecode([ v EXCEPT !.t = r.t ],
                                   EncodedVideoChunk(unit.type,
                                                     unit.timestampMicroseconds,
                                                     unit.durationMicroseconds,
                                                     r.res.chunk)))
        ELSE
            IF unit.type # "key" /\ v.needsKeyFrame THEN v
            ELSE DecoderDecode([ v EXCEPT !.needsKeyFrame = FALSE,
                                          !.requestedIdr = FALSE ],
                               EncodedVideoChunk(unit.type,
                                                 unit.timestampMicroseconds,
                                                 unit.durationMicroseconds,
                                                 unit.data)))

\* submitDecodeUnit of a unit that was buffered: the pipe is set up and its
\* buffer has just been emptied
VdpSubmitBuffered(pipe, unit) ==
    Bind(pipe, LAMBDA v :
        IF v.thrown \/ v.errored THEN v ELSE VdpProcess(v, unit))

RECURSIVE VdpDrain(_, _)
VdpDrain(v, units) ==
    IF units = << >> THEN v
    ELSE VdpDrain(VdpSubmitBuffered(v, Head(units)), Tail(units))

\* submitDecodeUnit without its test of the errored flag
VdpSubmitDecodeUnitUnchecked(pipe, unit) ==
    IF ~pipe.decoderSetupFinished
    THEN [ pipe EXCEPT !.bufferedUnits = Append(@, unit) ]
    ELSE VdpProcess(pipe, unit)

VdpSubmitDecodeUnit(pipe, unit) ==
    Bind(pipe, LAMBDA v :
        IF v.errored THEN v
        ELSE IF ~v.decoderSetupFinished
            THEN [ v EXCEPT !.bufferedUnits = Append(@, unit) ]
        ELSE
            Bind(VdpDrain([ v EXCEPT !.bufferedUnits = << >> ], v.bufferedUnits),
                 LAMBDA drained :
                    IF drained.thrown THEN drained ELSE VdpProcess(drained, unit)))

\* estimatedQueueDelayMs > 200, with the division by fps = 0 of an unset pipe
QueueDelayExceeds(v) ==
    IF v.fps = 0 THEN v.decoder.decodeQueueSize > 0
    ELSE v.decoder.decodeQueueSize * 1000 > 200 * v.fps

\* pollRequestIdr without the test of the requestedIdr latch
VdpPollRequestIdrUnlatched(pipe, baseAnswer) ==
    Bind(pipe, LAMBDA v :
        LET own == QueueDelayExceeds(v) /\ v.decoder.decodeQueueSize > 2
            requestIdr == own \/ (v.baseHasPoll /\ baseAnswer)
        IN  Bind(IF own THEN VdpReset(v) ELSE v, LAMBDA v1 :
                IF v1.thrown THEN v1
                ELSE [ v1 EXCEPT !.requestedIdr = IF requestIdr THEN TRUE ELSE @,
                                 !.opResult = requestIdr ]))

VdpPollRequestIdr(pipe, baseAnswer) ==
    Bind(pipe, LAMBDA v :
        LET backlog == QueueDelayExceeds(v) /\ v.decoder.decodeQueueSize > 2
            own == backlog /\ ~v.requestedIdr
            requestIdr == own \/ (v.baseHasPoll /\ baseAnswer)
        IN  Bind(IF own THEN VdpReset(v) ELSE v, LAMBDA v1 :
                IF v1.thrown THEN v1
                ELSE [ v1 EXCEPT !.requestedIdr = IF requestIdr THEN TRUE ELSE @,
                                 !.opResult = requestIdr ]))

VdpCleanupOp(v) ==
    DecoderClose([ v EXCEPT !.cleaned = TRUE ])

\* trySetConfig with the plain configuration probed first
trySetConfigPlainFirst(current, supported) ==
    IF current # 0 THEN current
    ELSE IF 3 \in supported THEN 3
    ELSE IF 2 \in supported THEN 2
    ELSE IF 1 \in supported THEN 1
    ELSE 0

\* trySetConfig: the first probe the platform supports, 0 when none
trySetConfig(current, supported) ==
    IF current # 0 THEN current
    ELSE IF 1 \in supported THEN 1
    ELSE IF 2 \in supported THEN 2
    ELSE IF 3 \in supported THEN 3
    ELSE 0

\* setup from the first await on; inBand and outOfBand are the probes the
\* platform answers as supported for the two codec strings
VdpSetupOp(pipe, inBand, outOfBand) ==
    Bind(pipe, LAMBDA v :
        LET first == trySetConfig(0, inBand)
            family == IF v.setupCodec = "H264" THEN "h264"
                      ELSE IF v.setupCodec = "H265" THEN "h265" ELSE "none"
            second == IF first = 0 /\ family # "none"
                      THEN trySetConfig(0, outOfBand) ELSE first
            v1 == IF first = 0 /\ family # "none"
                  THEN [ v EXCEPT !.translator = family, !.t = NewTranslator(family) ]
                  ELSE v
            codec == IF first # 0 THEN VIDEO_DECODER_CODECS_IN_BAND(v.setupCodec)
                     ELSE VIDEO_DECODER_CODECS_OUT_OF_BAND(v.setupCodec)
        IN  IF first = 0 /\ family = "none" THEN [ v1 EXCEPT !.errored = TRUE ]
            ELSE IF second = 0 THEN [ v1 EXCEPT !.errored = TRUE ]
            ELSE
                Bind(VdpReset([ v1 EXCEPT !.hasConfig = TRUE,
                                          !.configVariant = second,
                                          !.t = setBaseConfig(@, codec, NullBytes) ]),
                     LAMBDA v3 :
                        IF v3.thrown THEN v3
                        ELSE [ v3 EXCEPT !.decoderSetupFinished = TRUE ]))

AV1Units ==
    { Unit("key", << 18, 0, 10, 11 >>, 0), Unit("delta", << 18, 0, 50, 1 >>, 0) }

\* the units a stream of the negotiated codec carries
VdpUnits(setupCodec) ==
    IF setupCodec = "H264" THEN
        { Unit("key", AnnexB(<< 4, 4, 3 >>, << H264_SPS, H264_PPS, H264_IDR >>), 0),
          Unit("key", AnnexB(<< 4 >>, << H264_IDR >>), 16667),
          Unit("delta", AnnexB(<< 4 >>, << H264_SLICE >>), 33334) }
    ELSE IF setupCodec = "H265" THEN H265Units
    ELSE AV1Units

VdpBegin(v, op, unit) ==
    [ v EXCEPT !.op = op, !.opUnit = unit, !.opResult = FALSE,
               !.calls = << >>, !.processed = << >>, !.thrown = FALSE ]

VdpInit ==
    \E baseHasPoll \in BOOLEAN, codec \in SetupCodecs :
        vdp = [ NewVdp(baseHasPoll) EXCEPT !.setupCodec = codec ]

VdpIdle ==
    vdp = NewVdp(FALSE)

VdpSetupStart(fps) ==
    /\ vdp.setupPhase = "new"
    /\ vdp' = [ VdpBegin(vdp, "setup", NoUnit) EXCEPT !.fps = fps,
                                                      !.setupPhase = "pending" ]
    /\ UNCHANGED << tr, mse, oh, bp, mp4, cv, od, ap, bb >>

VdpSetupFinish(inBand, outOfBand) ==
    /\ vdp.setupPhase = "pending"
    /\ vdp' = [ VdpSetupOp(VdpBegin(vdp, "setup", NoUnit), inBand, outOfBand)
                  EXCEPT !.setupPhase = "done" ]
    /\ UNCHANGED << tr, mse, oh, bp, mp4, cv, od, ap, bb >>

VdpSubmit(unit) ==
    /\ ~vdp.decoderSetupFinished => Len(vdp.bufferedUnits) < MaxBuffered
    /\ vdp.decoder.decodeQueueSize < MaxQueue
    /\ vdp' = VdpSubmitDecodeUnit(VdpBegin(vdp, "submit", unit), unit)
    /\ UNCHANGED << tr, mse, oh, bp, mp4, cv, od, ap, bb >>

VdpPoll(baseAnswer) ==
    /\ baseAnswer => vdp.baseHasPoll
    /\ vdp' = VdpPollRequestIdr(VdpBegin(vdp, "poll", NoUnit), baseAnswer)
    /\ UNCHANGED << tr, mse, oh, bp, mp4, cv, od, ap, bb >>

VdpCleanup ==
    /\ ~vdp.cleaned
    /\ vdp' = VdpCleanupOp(VdpBegin(vdp, "cleanup", NoUnit))
    /\ UNCHANGED << tr, mse, oh, bp, mp4, cv, od, ap, bb >>

\* the decoder takes one chunk off its queue (and outputs a frame to the base)
VdpDecoderOutput ==
    /\ vdp.decoder.decodeQueueSize > 0
    /\ vdp' = [ VdpBegin(vdp, "output", NoUnit)
                  EXCEPT !.decoder.decodeQueueSize = @ - 1 ]
    /\ UNCHANGED << tr, mse, oh, bp, mp4, cv, od, ap, bb >>

\* the decoder reports an error: it closes itself and runs onError
VdpDecoderError ==
    /\ vdp.decoder.state = "configured"
    /\ vdp' = [ VdpBegin(vdp, "error", NoUnit)
                  EXCEPT !.errored = TRUE,
                         !.decoder.state = "closed",
                         !.decoder.decodeQueueSize = 0 ]
    /\ UNCHANGED << tr, mse, oh, bp, mp4, cv, od, ap, bb >>

(***************************************************************************)
(* MediaSourceDecoder: H.264 units are translated, wrapped in fragmented   *)
(* MP4 segments and appended to a SourceBuffer of a MediaSource.           *)
(*                                                                         *)
(* Times are JavaScript numbers that are multiples of 1/fps microseconds;  *)
(* the model holds such a number x as the integer x * fps ("scaled").      *)
(*                                                                         *)
(* mse is the record                                                       *)
(*   fps                      the fps setup is called with                 *)
(*   setupCalled              setup has run its synchronous part           *)
(*   hasVideoSize, expectedDurationMicroseconds (scaled), errored,         *)
(*   sequenceNumber, buffers, needIdr, droppedFrames,                      *)
(*   timestampMicrosecondsShift, lastTimestampMicroseconds (scaled)        *)
(*                            the fields of the decoder                    *)
(*   t                        its H.264 translator                         *)
(*   open                     the MediaSource has fired sourceopen         *)
(*   sourceBuffer             0 for null, else the number of the buffer    *)
(*   updating                 sourceBuffer.updating                        *)
(*   cleaned                  cleanup has been called                      *)
(*   pushed, appended         every segment pushed to buffers, and every   *)
(*                            segment handed to appendBuffer, in order     *)
(*   pushedTo, appendedTo     for every segment of pushed, the source      *)
(*                            buffer that was current when it was pushed;  *)
(*                            for every segment of appended, the source    *)
(*                            buffer appendBuffer was called on            *)
(*   attached, maxAttached    the source buffers in the MediaSource, and   *)
(*                            the most there have been at one time         *)
(*   appendedWhileUpdating    appendBuffer was called on a source buffer   *)
(*                            whose updating was true                      *)
(*   submitted                the units submitted, in order                *)
(*   everThrown               an exception has left one of the operations  *)
(*   op, opUnit, opResult, opPushed, opCreated, thrown                     *)
(*                            the last operation, its unit, its result, how*)
(*                            many segments it pushed and source buffers it*)
(*                            created, whether an exception left it        *)
(***************************************************************************)
\* units submitted to one decoder
MaxMseUnits == 4

MseFpsChoices == { 60 }

\* timestamps of the submitted units, in microseconds
KeyTimestampChoices == { 0, 40000 }
DeltaTimestampChoices == { 16666, 16667, 40000 }

\* a key unit with SPS, PPS and IDR, a key unit with the IDR alone, a delta unit
MseUnits ==
    { Unit("key", AnnexB(<< 4, 4, 3 >>, << H264_SPS, H264_PPS, H264_IDR >>), ts) :
        ts \in KeyTimestampChoices }
    \cup { Unit("key", AnnexB(<< 4 >>, << H264_IDR >>), 0) }
    \cup { Unit("delta", AnnexB(<< 4 >>, << H264_SLICE >>), ts) :
        ts \in DeltaTimestampChoices }

NewMse(fps) ==
    [ fps |-> fps,
      setupCalled |-> FALSE,
      hasVideoSize |-> FALSE,
      expectedDurationMicroseconds |-> 0,
      errored |-> FALSE,
      t |-> NewTranslator("h264"),
      open |-> FALSE,
      sequenceNumber |-> -1,
      sourceBuffer |-> 0,
      sourceBuffersCreated |-> 0,
      updating |-> FALSE,
      buffers |-> << >>,
      needIdr |-> TRUE,
      droppedFrames |-> 0,
      timestampMicrosecondsShift |-> 0,
      lastTimestampMicroseconds |-> 0,
      cleaned |-> FALSE,
      pushed |-> << >>,
      appended |-> << >>,
      pushedTo |-> << >>,
      appendedTo |-> << >>,
      attached |-> { },
      maxAttached |-> 0,
      appendedWhileUpdating |-> FALSE,
      submitted |-> << >>,
      everThrown |-> FALSE,
      op |-> "new",
      opUnit |-> NoUnit,
      opResult |-> FALSE,
      opPushed |-> 0,
      opCreated |-> 0,
      thrown |-> FALSE ]

\* DataView.setUint32 of a non-negative scaled number: the fraction is dropped
\* and the integer is taken modulo 2^32, as two 16-bit halves
ToUint32(scaled, fps) ==
    LET n == scaled \div fps
    IN  ((n \div 65536) % 65536) * 65536 + (n % 65536)

\* putU64 rounding a fraction up
putU64RoundedUp(scaled, fps) ==
    << 0, (scaled + fps - 1) \div fps >>

\* ByteBuffer.putU64 of a non-negative scaled number: the value the eight
\* bytes written hold, hi = floor(data / 2^32) and lo = data >>> 0, as the pair
\* << hi, lo >>
putU64(scaled, fps) ==
    << ((scaled \div fps) \div 65536) \div 65536, ToUint32(scaled, fps) >>

\* the fields putVideoInitSegment writes that depend on its arguments
putVideoInitSegment(timescale, trackId, description) ==
    [ kind |-> "init", timescale |-> timescale, trackId |-> trackId,
      description |-> description ]

\* the fields putVideoFrameSegment writes: mfhd sequence number, tfdt base decode
\* time, trun sample duration, size and flags, and the mdat payload
putVideoFrameSegment(trackId, sequenceNumber, baseDecodeTime, frameDuration, isKeyframe, frame, fps) ==
    [ kind |-> "frame",
      trackId |-> trackId,
      sequenceNumber |-> sequenceNumber,
      baseDecodeTime |-> putU64(baseDecodeTime, fps),
      frameDuration |-> ToUint32(frameDuration, fps),
      frameSize |-> Len(frame),
      isKeyframe |-> isKeyframe,
      isFirstSample |-> (sequenceNumber = 1),
      frame |-> frame ]

\* "Fix timestamps if we're given bad ones", without the expected duration: a
\* timestamp that does not exceed the last one becomes the last one
FixTimestampToLast(shifted, last, expectedDuration) ==
    IF shifted <= last THEN last ELSE shifted

\* "Fix timestamps if we're given bad ones": a timestamp that does not exceed the
\* last one becomes the last one plus the expected duration
FixTimestamp(shifted, last, expectedDuration) ==
    IF shifted <= last THEN last + expectedDuration ELSE shifted

\* putVideoFrameSegment throws before it writes anything
FrameSegmentThrows(isKeyframe, frame) ==
    isKeyframe /\ h264NalType(At(frame, 4)) # 5

Push(d, segment) ==
    [ d EXCEPT !.buffers = Append(@, segment),
               !.pushed = Append(@, segment),
               !.pushedTo = Append(@, d.sourceBuffer),
               !.opPushed = @ + 1 ]

\* sourceBuffer.appendBuffer(buffers.splice(0, 1)[0])
appendBuffer(d) ==
    [ d EXCEPT !.buffers = Tail(@),
               !.appended = Append(@, Head(d.buffers)),
               !.appendedTo = Append(@, d.sourceBuffer),
               !.appendedWhileUpdating = @ \/ d.updating,
               !.updating = TRUE ]

\* the loop without its test of sourceBuffer.updating: it appends until the
\* queue is empty
appendWithoutWaiting(d) ==
    IF d.errored \/ d.sourceBuffer = 0 \/ d.buffers = << >> THEN d
    ELSE IF Len(d.buffers) = 1 THEN appendBuffer(d)
    ELSE appendBuffer(appendBuffer(d))

\* One pass of the loop appends one segment, after which the source buffer is
\* updating and the loop returns.
tryAppendDecodeUnit(d) ==
    IF d.errored \/ d.sourceBuffer = 0 \/ d.updating \/ d.buffers = << >> THEN d
    ELSE appendBuffer(d)

\* addSourceBuffer throws unless the MediaSource is open and the type is
\* supported by the platform
addSourceBuffer(d, supported) ==
    IF ~d.open \/ ~supported THEN [ d EXCEPT !.thrown = TRUE ]
    ELSE [ d EXCEPT !.sourceBuffer = d.sourceBuffersCreated + 1,
                    !.sourceBuffersCreated = @ + 1,
                    !.attached = @ \cup { d.sourceBuffersCreated + 1 },
                    !.maxAttached = IF Cardinality(d.attached) + 1 > @
                                    THEN Cardinality(d.attached) + 1 ELSE @,
                    !.opCreated = @ + 1 ]

\* createNewSourceBuffer without the removal of the old source buffer
addWithoutRemoving(d, supported) ==
    addSourceBuffer([ d EXCEPT !.sourceBuffer = 0, !.updating = FALSE ], supported)

createNewSourceBuffer(d, supported) ==
    addSourceBuffer([ d EXCEPT !.sourceBuffer = 0, !.updating = FALSE,
                               !.attached = @ \ { d.sourceBuffer } ],
                    supported)

MseSubmitDecodeUnit(d0, unit, supported) ==
    LET d == [ d0 EXCEPT !.submitted = Append(@, unit) ]
    IN
    IF d.errored THEN d
    ELSE
      LET r == TranslatorSubmit(d.t, unit)
          d1 == [ d EXCEPT !.t = r.t ]
      IN
      IF r.res.thrown THEN [ d1 EXCEPT !.thrown = TRUE ]
      ELSE IF r.res.error THEN [ d1 EXCEPT !.errored = TRUE ]
      ELSE IF r.res.chunk = NullBytes THEN d1
      ELSE
        LET shifted == unit.timestampMicroseconds * d.fps
                         - d.timestampMicrosecondsShift
            timestampMicroseconds ==
                FixTimestamp(shifted, d.lastTimestampMicroseconds,
                             d.expectedDurationMicroseconds)
            durationMicroseconds ==
                timestampMicroseconds - d.lastTimestampMicroseconds
            d2 == [ d1 EXCEPT !.lastTimestampMicroseconds = timestampMicroseconds ]
        IN
        IF r.res.configure THEN
            IF r.t.description = NullBytes THEN [ d2 EXCEPT !.errored = TRUE ]
            ELSE
              LET d3 == createNewSourceBuffer(d2, supported)
              IN
              IF d3.thrown THEN d3
              ELSE IF ~d3.hasVideoSize THEN [ d3 EXCEPT !.errored = TRUE ]
              ELSE
                LET d4 == [ d3 EXCEPT
                              !.timestampMicrosecondsShift =
                                  unit.timestampMicroseconds * d.fps,
                              !.lastTimestampMicroseconds = 0,
                              !.sequenceNumber = 1 ]
                    d5 == Push(d4, putVideoInitSegment(1000000, 1, r.t.description))
                IN
                IF FrameSegmentThrows(TRUE, r.res.chunk)
                THEN [ d5 EXCEPT !.thrown = TRUE ]
                ELSE
                  tryAppendDecodeUnit(
                    [ Push(d5, putVideoFrameSegment(1, 1, 0, durationMicroseconds,
                                                    TRUE, r.res.chunk, d.fps))
                        EXCEPT !.needIdr = FALSE, !.droppedFrames = 0 ])
        ELSE
            IF d2.needIdr THEN [ d2 EXCEPT !.droppedFrames = @ + 1 ]
            ELSE
              LET d3 == [ d2 EXCEPT !.sequenceNumber = @ + 1 ]
              IN  tryAppendDecodeUnit(
                    Push(d3, putVideoFrameSegment(1, d3.sequenceNumber,
                                                  timestampMicroseconds,
                                                  durationMicroseconds,
                                                  FALSE, r.res.chunk, d.fps)))

MsePollRequestIdr(d, baseAnswer) ==
    LET own == d.droppedFrames > 60
    IN  [ d EXCEPT !.droppedFrames = IF own THEN 0 ELSE @,
                   !.opResult = own \/ baseAnswer ]

MseBegin(d, op, unit) ==
    [ d EXCEPT !.op = op, !.opUnit = unit, !.opResult = FALSE,
               !.opPushed = 0, !.opCreated = 0, !.thrown = FALSE ]

MseInit ==
    \E fps \in MseFpsChoices : mse = NewMse(fps)

MseIdle ==
    mse = NewMse(60)

\* setup up to its await: the URL is handed to the base
MseSetup ==
    /\ ~mse.setupCalled
    /\ mse' = [ MseBegin(mse, "setup", NoUnit)
                  EXCEPT !.setupCalled = TRUE,
                         !.hasVideoSize = TRUE,
                         !.expectedDurationMicroseconds = 1000000 ]
    /\ UNCHANGED << tr, vdp, oh, bp, mp4, cv, od, ap, bb >>

\* the media element that was given the URL opens the MediaSource
MseSourceOpen ==
    /\ mse.setupCalled
    /\ ~mse.open
    /\ mse' = [ MseBegin(mse, "sourceopen", NoUnit) EXCEPT !.open = TRUE ]
    /\ UNCHANGED << tr, vdp, oh, bp, mp4, cv, od, ap, bb >>

MseSubmit(unit, supported) ==
    /\ Len(mse.submitted) < MaxMseUnits
    /\ LET d == MseSubmitDecodeUnit(MseBegin(mse, "submit", unit), unit, supported)
       IN  mse' = [ d EXCEPT !.everThrown = @ \/ d.thrown ]
    /\ UNCHANGED << tr, vdp, oh, bp, mp4, cv, od, ap, bb >>

\* the source buffer finishes an append: updateend runs onUpdateEnd
MseUpdateEnd ==
    /\ mse.sourceBuffer # 0
    /\ mse.updating
    /\ mse' = tryAppendDecodeUnit(
                [ MseBegin(mse, "updateend", NoUnit) EXCEPT !.updating = FALSE ])
    /\ UNCHANGED << tr, vdp, oh, bp, mp4, cv, od, ap, bb >>

\* the source buffer fails an append: error runs onError
MseSourceBufferError ==
    /\ mse.sourceBuffer # 0
    /\ mse.updating
    /\ ~mse.errored
    /\ mse' = [ MseBegin(mse, "error", NoUnit)
                  EXCEPT !.errored = TRUE, !.updating = FALSE ]
    /\ UNCHANGED << tr, vdp, oh, bp, mp4, cv, od, ap, bb >>

MsePoll(baseAnswer) ==
    /\ mse.op # "poll"
    /\ mse' = MsePollRequestIdr(MseBegin(mse, "poll", NoUnit), baseAnswer)
    /\ UNCHANGED << tr, vdp, oh, bp, mp4, cv, od, ap, bb >>

MseCleanup ==
    /\ ~mse.cleaned
    /\ mse' = [ MseBegin(mse, "cleanup", NoUnit) EXCEPT !.cleaned = TRUE ]
    /\ UNCHANGED << tr, vdp, oh, bp, mp4, cv, od, ap, bb >>

(***************************************************************************)
(* ByteBuffer (buffer.ts) and the boxes of a fragmented-MP4 frame segment  *)
(* (putVideoFrameSegment), byte by byte.                                   *)
(*                                                                         *)
(* A buffer is the record                                                  *)
(*   capacity, position, limit   as in the class (positions are 0-based)   *)
(*   bytes    the array up to the highest position touched; a cell that    *)
(*            was never written holds the 0 the array was created with     *)
(*   written  the positions some put has written                           *)
(*   boxes    the boxes putBox has finished: type, first position, end     *)
(*   thrown   a put threw "failed to write over the capacity"              *)
(***************************************************************************)
NewByteBuffer(length) ==
    [ capacity |-> length, position |-> 0, limit |-> length, bytes |-> << >>,
      written |-> { }, boxes |-> << >>, thrown |-> FALSE ]

ByteBuffer_bytesUsed(b, amount) ==
    [ b EXCEPT !.position = @ + amount ]

\* the bytes "data" stored from position "at" on, the way a DataView or
\* Uint8Array.set stores them
ByteBuffer_store(b, at, data) ==
    LET top == IF at + Len(data) > Len(b.bytes) THEN at + Len(data) ELSE Len(b.bytes)
    IN  [ b EXCEPT !.bytes = [ i \in 1 .. top |->
                                 IF i > at /\ i <= at + Len(data) THEN data[i - at]
                                 ELSE IF i <= Len(b.bytes) THEN b.bytes[i]
                                 ELSE 0 ],
                   !.written = @ \cup { at + k - 1 : k \in 1 .. Len(data) } ]

\* useDataView(length, false, index) followed by the view's stores of "data";
\* index = Undefined stands for the argument left out
ByteBuffer_useDataView(buffer, data, index) ==
    Bind(buffer, LAMBDA b :
        LET position == IF index # Undefined THEN index ELSE b.position
            maxPosition == position + Len(data)
        IN  IF b.thrown THEN b
            ELSE IF maxPosition > b.capacity THEN [ b EXCEPT !.thrown = TRUE ]
            ELSE
                LET limited == [ b EXCEPT !.limit = IF maxPosition > @
                                                    THEN maxPosition ELSE @ ]
                    used == IF index = Undefined
                            THEN ByteBuffer_bytesUsed(limited, Len(data))
                            ELSE limited
                IN  ByteBuffer_store(used, position, data))

ByteBuffer_putU8(b, data) ==
    ByteBuffer_useDataView(b, << data % 256 >>, Undefined)

ByteBuffer_putU32(b, data, index) ==
    ByteBuffer_useDataView(b, PutU32BE(data), index)

ByteBuffer_putI32(b, data, index) ==
    ByteBuffer_useDataView(b, PutU32BE(data), index)

\* useDataView(8) moves the position over the 8 bytes that are written, and
\* bytesUsed(8) moves it once more
ByteBuffer_putU64(buffer, hi, lo, index) ==
    Bind(ByteBuffer_useDataView(buffer, PutU32BE(hi) \o PutU32BE(lo), index),
         LAMBDA b : IF b.thrown THEN b ELSE ByteBuffer_bytesUsed(b, 8))

\* "if (index)" takes the index 0 for an index left out, "index == null"
\* does not
ByteBuffer_putU8Array(buffer, data, index) ==
    Bind(buffer, LAMBDA b :
        LET position == IF index # Undefined /\ index # 0 THEN index ELSE b.position
            maxPosition == position + Len(data)
        IN  IF b.thrown THEN b
            ELSE IF maxPosition > b.capacity THEN [ b EXCEPT !.thrown = TRUE ]
            ELSE
                LET stored == ByteBuffer_store(
                                [ b EXCEPT !.limit = IF maxPosition > @
                                                     THEN maxPosition ELSE @ ],
                                position, data)
                IN  IF index = Undefined
                    THEN ByteBuffer_bytesUsed(stored, Len(data))
                    ELSE stored)

\* TextEncoder.encodeInto at the position writes the bytes that fit (the text
\* is ASCII); the limit is left alone
ByteBuffer_putUtf8Raw(buffer, text) ==
    Bind(buffer, LAMBDA b :
        LET room == IF b.position < b.capacity THEN b.capacity - b.position ELSE 0
            written == IF Len(text) <= room THEN Len(text) ELSE room
        IN  IF b.thrown THEN b
            ELSE [ ByteBuffer_bytesUsed(
                     ByteBuffer_store(b, b.position, SubSeq(text, 1, written)), written)
                   EXCEPT !.thrown = written # Len(text) ])

\* big-endian, as littleEndian is false
ByteBuffer_putU16(b, data, index) ==
    ByteBuffer_useDataView(b, << (data \div 256) % 256, data % 256 >>, index)

\* setFloat32 on a view of the whole array, "data" being the 4 bytes of the
\* number: a RangeError beyond the array, and the limit is left alone
ByteBuffer_putF32(buffer, data) ==
    Bind(buffer, LAMBDA b :
        IF b.thrown THEN b
        ELSE IF b.position + 4 > b.capacity THEN [ b EXCEPT !.thrown = TRUE ]
        ELSE ByteBuffer_bytesUsed(ByteBuffer_store(b, b.position, data), 4))

\* bytesUsed(amount, true): the position moves before the limit is tested
ByteBuffer_bytesUsedReading(b, amount) ==
    [ b EXCEPT !.position = @ + amount, !.thrown = b.position + amount > b.limit ]

\* get(buffer, offset, length) into an array that has the room: subarray
\* clamps to the array
ByteBuffer_get(b, length) ==
    ByteBuffer_bytesUsedReading(b, length)

\* getU8, getU16, getU32 by their width: a view of the whole array, a
\* RangeError beyond it
ByteBuffer_getU(b, width) ==
    IF b.position + width > b.capacity THEN [ b EXCEPT !.thrown = TRUE ]
    ELSE ByteBuffer_bytesUsedReading(b, width)

ByteBuffer_reset(b) ==
    [ b EXCEPT !.position = 0, !.limit = 0 ]

ByteBuffer_flip(b) ==
    [ b EXCEPT !.limit = b.position, !.position = 0 ]

\* flip() and getRemainingBuffer(): the bytes before the position
ByteBuffer_flipped(b) ==
    [ i \in 1 .. b.position |-> IF i <= Len(b.bytes) THEN b.bytes[i] ELSE 0 ]

\* the UTF-8 bytes of a box type
BoxType(type) ==
    CASE type = "moof" -> << 109, 111, 111, 102 >>
      [] type = "mfhd" -> << 109, 102, 104, 100 >>
      [] type = "traf" -> << 116, 114, 97, 102 >>
      [] type = "tfhd" -> << 116, 102, 104, 100 >>
      [] type = "tfdt" -> << 116, 102, 100, 116 >>
      [] type = "trun" -> << 116, 114, 117, 110 >>
      [] type = "mdat" -> << 109, 100, 97, 116 >>

\* putBox up to its call of write(): the length field, still 0, and the type
putBoxHeader(buffer, type) ==
    ByteBuffer_putUtf8Raw(ByteBuffer_putU32(buffer, 0, Undefined), BoxType(type))

\* putBox after write() has returned: the length field at payloadLenPosition
\* is set to the distance the position has moved since
putBoxLength(buffer, payloadLenPosition, type) ==
    Bind(ByteBuffer_putU32(buffer, buffer.position - payloadLenPosition,
                           payloadLenPosition),
         LAMBDA done :
            IF done.thrown THEN done
            ELSE [ done EXCEPT !.boxes = Append(@,
                       [ type |-> type, begin |-> payloadLenPosition,
                         end |-> done.position ]) ])

\* putFullBox up to its call of write(): header, version and the three bytes
\* of flags
putFullBoxHeader(buffer, type, version, flags) ==
    ByteBuffer_putU8(
      ByteBuffer_putU8(
        ByteBuffer_putU8(
          ByteBuffer_putU8(putBoxHeader(buffer, type), version),
          (flags \div 65536) % 256),
        (flags \div 256) % 256),
      flags % 256)

putMfhdBox(buffer, sequenceNumber) ==
    putBoxLength(
        ByteBuffer_putU32(putFullBoxHeader(buffer, "mfhd", 0, 0),
                          sequenceNumber, Undefined),
        buffer.position, "mfhd")

putTfhdBox(buffer, trackId) ==
    putBoxLength(
        ByteBuffer_putU32(putFullBoxHeader(buffer, "tfhd", 0, 131072),
                          trackId, Undefined),
        buffer.position, "tfhd")

\* version 1: the base decode time goes through putU64
putTfdtBox(buffer, baseDecodeTime, fps) ==
    putBoxLength(
        ByteBuffer_putU64(putFullBoxHeader(buffer, "tfdt", 1, 0),
                          putU64(baseDecodeTime, fps)[1],
                          putU64(baseDecodeTime, fps)[2], Undefined),
        buffer.position, "tfdt")

putTrunBox(buffer, frameDuration, frameSize, isKeyframe, isFirstSample, fps) ==
    LET trunFlags == 1 + 256 + 512 + (IF isFirstSample THEN 4 ELSE 1024)
        sampleFlags == IF isKeyframe THEN 33554432 ELSE 16842752
        first(b) == IF isFirstSample
                    THEN ByteBuffer_putU32(b, sampleFlags, Undefined) ELSE b
        last(b) == IF isFirstSample
                   THEN b ELSE ByteBuffer_putU32(b, sampleFlags, Undefined)
    IN  putBoxLength(
            last(ByteBuffer_putU32(
                   ByteBuffer_putU32(
                     first(ByteBuffer_putI32(
                             ByteBuffer_putU32(
                               putFullBoxHeader(buffer, "trun", 0, trunFlags),
                               1, Undefined),
                             0, Undefined)),
                     ToUint32(frameDuration, fps), Undefined),
                   frameSize, Undefined)),
            buffer.position, "trun")

\* info.dataOffsetPosition of putTrunBox: behind the header, version and flags
\* and sample_count of the trun box
dataOffsetPosition(b) ==
    b.boxes[CHOOSE i \in 1 .. Len(b.boxes) : b.boxes[i].type = "trun"].begin + 16

putMdatBox(buffer, frame) ==
    putBoxLength(ByteBuffer_putU8Array(putBoxHeader(buffer, "mdat"), frame, Undefined),
                 buffer.position, "mdat")

\* putTrafBox with the boxes putVideoFrameSegment writes into it
putTrafBox(buffer, trackId, sequenceNumber, baseDecodeTime, frameDuration, isKeyframe, frameSize, fps) ==
    Bind(buffer, LAMBDA b :
        putBoxLength(
            putTrunBox(
                putTfdtBox(putTfhdBox(putBoxHeader(b, "traf"), trackId),
                           baseDecodeTime, fps),
                frameDuration, frameSize, isKeyframe, sequenceNumber = 1, fps),
            b.position, "traf"))

\* putMoofBox with the boxes putVideoFrameSegment writes into it
putMoofBox(buffer, trackId, sequenceNumber, baseDecodeTime, frameDuration, isKeyframe, frameSize, fps) ==
    putBoxLength(
        putTrafBox(putMfhdBox(putBoxHeader(buffer, "moof"), sequenceNumber),
                   trackId, sequenceNumber, baseDecodeTime, frameDuration,
                   isKeyframe, frameSize, fps),
        buffer.position, "moof")

\* putVideoFrameSegment on a fresh buffer, for a frame it does not refuse
putVideoFrameSegmentBoxes(buffer, trackId, sequenceNumber, baseDecodeTime, frameDuration, isKeyframe, frame, fps) ==
    LET moofPosition == buffer.position
    IN  Bind(putMoofBox(buffer, trackId, sequenceNumber, baseDecodeTime,
                        frameDuration, isKeyframe, Len(frame), fps),
             LAMBDA moof :
                IF moof.thrown THEN moof
                ELSE putMdatBox(
                        ByteBuffer_putI32(moof, moof.position - moofPosition + 8,
                                          dataOffsetPosition(moof)),
                        frame))

\* The frame segments MediaSourceDecoder writes: the chunk the translator made
\* of a unit, as a key frame (sequence number 1, decode time 0) when the unit
\* configured and as a later frame otherwise, in a buffer of 400 bytes more
\* than the unit.
Mp4SequenceNumbers == { 2, 3, 4 }

\* base decode times and durations, in 1/60 microseconds
Mp4DecodeTimes == { 1000000, 1999980, 2400000, 3000000 }
Mp4Durations == { 999960, 1000000, 1400000 }

NewMp4 ==
    [ done |-> FALSE, thrown |-> FALSE, unit |-> NoUnit, isKeyframe |-> FALSE,
      frame |-> << >>, sequenceNumber |-> 0, baseDecodeTime |-> 0,
      frameDuration |-> 0, buffer |-> NewByteBuffer(0), segment |-> << >> ]

Mp4Idle ==
    mp4 = NewMp4

Mp4Init ==
    mp4 = NewMp4

Mp4PutVideoFrameSegment(unit, sequenceNumber, baseDecodeTime, frameDuration) ==
    /\ ~mp4.done
    /\ LET r == TranslatorSubmit([ NewTranslator("h264") EXCEPT !.hasDescription = TRUE ],
                                 unit).res
           throws == FrameSegmentThrows(r.configure, r.chunk)
           b == IF throws THEN NewByteBuffer(400 + Len(unit.data))
                ELSE putVideoFrameSegmentBoxes(NewByteBuffer(400 + Len(unit.data)), 1,
                                               sequenceNumber, baseDecodeTime,
                                               frameDuration, r.configure, r.chunk, 60)
       IN  /\ IF r.configure THEN sequenceNumber = 1 /\ baseDecodeTime = 0
               ELSE sequenceNumber > 1 /\ baseDecodeTime > 0
           /\ mp4' = [ done |-> TRUE, thrown |-> throws \/ b.thrown, unit |-> unit,
                       isKeyframe |-> r.configure, frame |-> r.chunk,
                       sequenceNumber |-> sequenceNumber,
                       baseDecodeTime |-> baseDecodeTime,
                       frameDuration |-> frameDuration,
                       buffer |-> b, segment |-> ByteBuffer_flipped(b) ]
    /\ UNCHANGED << tr, vdp, mse, oh, bp, cv, od, ap, bb >>

(***************************************************************************)
(* A ByteBuffer under the calls of its users.  bb is the record            *)
(*   buffer   the ByteBuffer after the last call                           *)
(*   before   the ByteBuffer before the last call                          *)
(*   op       the last call: "new", "put", "get", "flip" or "reset"        *)
(*   kind     the put or get that was called                               *)
(*   index    the index argument of the put, Undefined when left out       *)
(*   data     the bytes the put was given to write                         *)
(*   calls    the number of calls                                          *)
(* A call that throws leaves the buffer to its user as it is then.         *)
(***************************************************************************)
\* calls on one buffer
MaxBbCalls == 3

BbCapacities == { 4, 16 }

BbIndexes == { Undefined, 0, 2 }

PutKinds == { "U8", "U16", "U32", "U64", "U8Array" }

GetKinds == { "U8", "U16", "U32", "get" }

\* the bytes a put of each kind is given: the big-endian bytes of the number
\* 0x0102..., the array 9 8 7, the float 1.0, the text "ab"
PutData(kind) ==
    CASE kind = "U8" -> << 1 >>
      [] kind = "U16" -> << 1, 2 >>
      [] kind = "U32" -> << 1, 2, 3, 4 >>
      [] kind = "U64" -> << 1, 2, 3, 4, 5, 6, 7, 8 >>
      [] kind = "U8Array" -> << 9, 8, 7 >>
      [] kind = "F32" -> << 63, 128, 0, 0 >>
      [] kind = "Utf8Raw" -> << 97, 98 >>

GetWidth(kind) ==
    CASE kind = "U8" -> 1
      [] kind = "U16" -> 2
      [] kind = "U32" -> 4
      [] kind = "get" -> 3

\* the put of a kind, given the number or array whose bytes are PutData
ByteBuffer_put(b, kind, index) ==
    CASE kind = "U8" -> ByteBuffer_useDataView(b, << 1 >>, index)
      [] kind = "U16" -> ByteBuffer_putU16(b, 258, index)
      [] kind = "U32" -> ByteBuffer_putU32(b, 16909060, index)
      [] kind = "U64" -> ByteBuffer_putU64(b, 16909060, 84281096, index)
      [] kind = "U8Array" -> ByteBuffer_putU8Array(b, PutData(kind), index)
      [] kind = "F32" -> ByteBuffer_putF32(b, PutData(kind))
      [] kind = "Utf8Raw" -> ByteBuffer_putUtf8Raw(b, PutData(kind))

NewBb(length) ==
    [ buffer |-> NewByteBuffer(length), before |-> NewByteBuffer(length),
      op |-> "new", kind |-> "", index |-> Undefined, data |-> << >>, calls |-> 0 ]

BbIdle ==
    bb = NewBb(0)

BbInit ==
    \E length \in BbCapacities : bb = NewBb(length)

BbCall(op, kind, index, data, after) ==
    [ buffer |-> after, before |-> [ bb.buffer EXCEPT !.thrown = FALSE ],
      op |-> op, kind |-> kind, index |-> index, data |-> data,
      calls |-> bb.calls + 1 ]

BbPut(kind, index) ==
    /\ bb.calls < MaxBbCalls
    /\ bb' = BbCall("put", kind, index, PutData(kind),
                    ByteBuffer_put([ bb.buffer EXCEPT !.thrown = FALSE ], kind, index))
    /\ UNCHANGED << tr, vdp, mse, oh, bp, mp4, cv, od, ap >>

BbGet(kind) ==
    /\ bb.calls < MaxBbCalls
    /\ bb' = BbCall("get", kind, Undefined, << >>,
                    IF kind = "get"
                    THEN ByteBuffer_get([ bb.buffer EXCEPT !.thrown = FALSE ], GetWidth(kind))
                    ELSE ByteBuffer_getU([ bb.buffer EXCEPT !.thrown = FALSE ], GetWidth(kind)))
    /\ UNCHANGED << tr, vdp, mse, oh, bp, mp4, cv, od, ap >>

BbReset ==
    /\ bb.calls < MaxBbCalls
    /\ bb' = BbCall("reset", "", Undefined, << >>,
                    ByteBuffer_reset([ bb.buffer EXCEPT !.thrown = FALSE ]))
    /\ UNCHANGED << tr, vdp, mse, oh, bp, mp4, cv, od, ap >>

BbFlip ==
    /\ bb.calls < MaxBbCalls
    /\ bb' = BbCall("flip", "", Undefined, << >>,
                    ByteBuffer_flip([ bb.buffer EXCEPT !.thrown = FALSE ]))
    /\ UNCHANGED << tr, vdp, mse, oh, bp, mp4, cv, od, ap >>

(***************************************************************************)
(* CanvasFrameDrawPipe (canvas_frame.ts:10-120).  A VideoFrame is a record *)
(* of the browser: an identity, a display width and a closed flag; the     *)
(* pipe's upstream (VideoDecoderPipe.onOutput, video_decoder_pipe.ts:110)  *)
(* hands every decoder output over once, so every submitted frame is a new *)
(* object.  closes[f] counts the close() calls made on frame f.            *)
(***************************************************************************)
MaxFrames == 4

FrameWidths == { 1280, 1920 }

NewCanvasPipe(drawOnSubmit) ==
    [ drawOnSubmit |-> drawOnSubmit, animationFrameRequest |-> FALSE,
      currentFrame |-> 0, submitted |-> 0,
      widths |-> [ f \in 1..MaxFrames |-> 0 ],
      closes |-> [ f \in 1..MaxFrames |-> 0 ],
      canvasWidth |-> 0, drawn |-> 0, drewClosed |-> FALSE, cleaned |-> FALSE ]

CvIdle ==
    cv = NewCanvasPipe(TRUE)

CvInit ==
    \E drawOnSubmit \in BOOLEAN : cv = NewCanvasPipe(drawOnSubmit)

\* a mutation of closeCurrentFrame: the replaced frame is left open
leakCurrentFrame(c) ==
    c

\* this.currentFrame?.close()
closeCurrentFrame(c) ==
    IF c.currentFrame = 0 THEN c
    ELSE [ c EXCEPT !.closes[c.currentFrame] = @ + 1 ]

drawCurrentFrameIfReady(c, error) ==
    IF c.currentFrame = 0 \/ error THEN c
    ELSE [ c EXCEPT !.canvasWidth = c.widths[c.currentFrame],
                    !.drawn = c.currentFrame,
                    !.drewClosed = @ \/ c.closes[c.currentFrame] > 0 ]

onFrameSubmitted(c, error) ==
    IF c.drawOnSubmit THEN drawCurrentFrameIfReady(c, error) ELSE c

CvSetup ==
    /\ ~cv.animationFrameRequest
    /\ cv' = [ cv EXCEPT !.animationFrameRequest = TRUE ]
    /\ UNCHANGED << tr, vdp, mse, oh, bp, mp4, od, ap, bb >>

CvCleanup ==
    /\ ~cv.cleaned
    /\ cv' = [ cv EXCEPT !.cleaned = TRUE ]
    /\ UNCHANGED << tr, vdp, mse, oh, bp, mp4, od, ap, bb >>

CvSubmitFrame(width, error) ==
    /\ cv.submitted < MaxFrames
    /\ LET frame == cv.submitted + 1
           closed == closeCurrentFrame(cv)
           stored == [ closed EXCEPT !.currentFrame = frame, !.submitted = frame,
                                     !.widths[frame] = width ]
       IN  cv' = onFrameSubmitted(stored, error)
    /\ UNCHANGED << tr, vdp, mse, oh, bp, mp4, od, ap, bb >>

CvOnAnimationFrame(error) ==
    /\ cv.animationFrameRequest
    /\ cv' = IF ~cv.drawOnSubmit THEN drawCurrentFrameIfReady(cv, error) ELSE cv
    /\ UNCHANGED << tr, vdp, mse, oh, bp, mp4, od, ap, bb >>

(***************************************************************************)
(* OpusMultistreamDecoder (libopus binding, part_000).  A Buffer is the    *)
(* record of its pointer (0 when nothing is allocated) and its length in   *)
(* bytes; _malloc is taken to succeed.  The native decoder is the          *)
(* environment: its return value is an input of the action, an error code  *)
(* -7..-1 or a count of samples up to frameSize.                           *)
(***************************************************************************)
OPUS_OK == 0
OPUS_BAD_ARG == -1
OPUS_BUFFER_TOO_SMALL == -2
OPUS_INTERNAL_ERROR == -3
OPUS_INVALID_PACKET == -4
OPUS_UNIMPLEMENTED == -5
OPUS_INVALID_STATE == -6
OPUS_ALLOC_FAIL == -7

MaxOpusCalls == 3

OpusChannels == { 1, 2 }
OpusFrameSizes == { 0, 240, 480, 960 }
\* byteLength of the packet, or -1 for null (packet loss)
OpusInputLengths == { -1, 0, 40, 80 }

NativeResults(frameSize) ==
    (OPUS_ALLOC_FAIL .. OPUS_BAD_ARG) \cup { frameSize \div 2, frameSize }

getMessageFromCode(errorCode) ==
    CASE errorCode = OPUS_OK -> "Ok"
      [] errorCode = OPUS_BAD_ARG -> "Bad Argument"
      [] errorCode = OPUS_BUFFER_TOO_SMALL -> "Buffer Too Small"
      [] errorCode = OPUS_INTERNAL_ERROR -> "Internal Error"
      [] errorCode = OPUS_INVALID_PACKET -> "Invalid Packet"
      [] errorCode = OPUS_UNIMPLEMENTED -> "Unimplemented Feature"
      [] errorCode = OPUS_INVALID_STATE -> "Invalid State"
      [] errorCode = OPUS_ALLOC_FAIL -> "Memory Allocation Failed"
      [] OTHER -> "Unknown Opus error code"

NewBuffer ==
    [ ptr |-> 0, length |-> 0 ]

Buffer_ensureSize(buffer, length) ==
    IF length = 0 THEN buffer
    ELSE IF buffer.ptr = 0 \/ buffer.length < length
         THEN [ ptr |-> 1, length |-> length ]
         ELSE buffer

\* "ok", or what asBufferF32 throws
Buffer_asBufferF32(buffer, offsetF32, lengthF32) ==
    IF lengthF32 <= 0 THEN "empty"
    ELSE IF buffer.ptr = 0 THEN "NullPointer"
    ELSE IF (offsetF32 + lengthF32) * 4 < buffer.length \/ offsetF32 < 0 \/ lengthF32 < 0
         THEN "BufferOutOfBounds"
         ELSE "ok"

\* the outcome of one call: what was thrown or returned, the value, whether the
\* native decoder ran and whether the caller's output array was written
Outcome(d, outcome, value, message, called, native, written) ==
    [ d EXCEPT !.outcome = outcome, !.value = value, !.message = message,
               !.called = called, !.native = native, !.written = written,
               !.calls = @ + 1 ]

NewOpusDecoder(channels) ==
    [ ptr |-> 1, channels |-> channels, inputBuffer |-> NewBuffer,
      outputBuffer |-> NewBuffer, outcome |-> "none", value |-> 0, message |-> "",
      called |-> FALSE, native |-> 0, written |-> FALSE, frameSize |-> 0,
      calls |-> 0 ]

OdIdle ==
    od = NewOpusDecoder(2)

OdInit ==
    \E channels \in OpusChannels : od = NewOpusDecoder(channels)

IsNativeError(result) ==
    result < 0

decodeFloat(d0, inputLength, outputFloats, frameSize, native) ==
    LET d == [ d0 EXCEPT !.frameSize = frameSize ]
        outputSize == d.channels * frameSize * 4
    IN  IF outputFloats * 4 < outputSize
        THEN Outcome(d, "OpusError", OPUS_BUFFER_TOO_SMALL,
                     getMessageFromCode(OPUS_BUFFER_TOO_SMALL), FALSE, 0, FALSE)
        ELSE IF d.ptr = 0
        THEN Outcome(d, "OpusError", OPUS_INVALID_STATE,
                     getMessageFromCode(OPUS_INVALID_STATE), FALSE, 0, FALSE)
        ELSE
            LET d1 == [ d EXCEPT
                          !.inputBuffer = IF inputLength >= 0
                                          THEN Buffer_ensureSize(@, inputLength) ELSE @,
                          !.outputBuffer = Buffer_ensureSize(@, outputSize) ]
                view == Buffer_asBufferF32(d1.outputBuffer, 0, d.channels * frameSize)
            IN  IF IsNativeError(native)
                THEN Outcome(d1, "OpusError", native, getMessageFromCode(native),
                             TRUE, native, FALSE)
                ELSE IF view \in { "NullPointer", "BufferOutOfBounds" }
                THEN Outcome(d1, view, 0, view, TRUE, native, FALSE)
                ELSE Outcome(d1, "returned", native, "", TRUE, native, view = "ok")

OdDecodeFloat(inputLength, outputFloats, frameSize, native) ==
    /\ od.calls < MaxOpusCalls
    /\ od' = decodeFloat(od, inputLength, outputFloats, frameSize, native)
    /\ UNCHANGED << tr, vdp, mse, oh, bp, mp4, cv, ap, bb >>

OdDestroy ==
    /\ od.calls < MaxOpusCalls
    /\ od' = IF od.ptr = 0
             THEN Outcome(od, "OpusError", OPUS_INVALID_STATE,
                          getMessageFromCode(OPUS_INVALID_STATE), FALSE, 0, FALSE)
             ELSE [ Outcome(od, "none", 0, "", FALSE, 0, FALSE) EXCEPT
                      !.inputBuffer = NewBuffer, !.outputBuffer = NewBuffer, !.ptr = 0 ]
    /\ UNCHANGED << tr, vdp, mse, oh, bp, mp4, cv, ap, bb >>

(***************************************************************************)
(* OpusAudioDecoderPipe (opus_decoder_pipe.ts) with the constructor of     *)
(* OpusMultistreamDecoder (part_000).  The Emscripten module is the record *)
(* of its scratch stack: sp is the stack top, saves and restores count the *)
(* calls of stackSave and stackRestore.  The native constructor is the     *)
(* environment: its error code is an input, and the record of its call     *)
(* names each argument by the role the native function gives it.           *)
(*                                                                         *)
(* ap is the record                                                        *)
(*   errored, setupData, hasModule, hasDecoder, decoder   the fields       *)
(*   module                   the scratch stack of the loaded module       *)
(*   created                  the last call of the native constructor      *)
(*   thrown                   what the last constructor call threw, or 0   *)
(*   topBefore                the scratch top when the constructor began   *)
(*   submitted                number of units given to decodeAndPlay       *)
(*   early                    the units given before setup or before the   *)
(*                            module had loaded                            *)
(*   played                   the units given to base.playPcm, in order    *)
(*   op                       the last operation                           *)
(***************************************************************************)
\* units given to one pipe
MaxApUnits == 3

\* the scratch stack top of a fresh module
ScratchTop == 1024

NoSetup == [ channels |-> 0 ]

NoCreate == [ Fs |-> 0 ]

AudioSetup(channels, streams, coupledStreams, mapping) ==
    [ sampleRate |-> 48000, channels |-> channels, streams |-> streams,
      coupledStreams |-> coupledStreams, mapping |-> mapping,
      samplesPerFrame |-> 240 ]

\* mono, stereo, 5.1, and two setups whose mapping the constructor rejects:
\* an entry outside 0..255, and fewer entries than channels
AudioSetups ==
    { AudioSetup(1, 1, 0, << 0 >>),
      AudioSetup(2, 1, 1, << 0, 1 >>),
      AudioSetup(6, 4, 2, << 0, 4, 1, 5, 2, 3 >>),
      AudioSetup(2, 1, 1, << 0, 256 >>),
      AudioSetup(2, 1, 1, << 0 >>) }

\* byteLength of unit.data
AudioDataLengths == { 0, 40 }

\* what the native constructor writes to its error argument
NativeCreateErrors == { OPUS_OK, OPUS_BAD_ARG }

\* what the native decoder returns for a frame of the pipe
NativeDecodeResults(frameSize) ==
    { OPUS_INVALID_PACKET, frameSize }

NewModule ==
    [ sp |-> ScratchTop, saves |-> 0, restores |-> 0 ]

stackSave(module) ==
    [ module EXCEPT !.saves = @ + 1 ]

\* the scratch stack grows downwards in units of 16 bytes
stackAlloc(module, size) ==
    [ module EXCEPT !.sp = @ - ((size + 15) \div 16) * 16 ]

stackRestore(module, top) ==
    [ module EXCEPT !.sp = top, !.restores = @ + 1 ]

\* the native constructor, by the roles of its arguments
opus_multistream_decoder_create(Fs, channels, streams, coupled_streams) ==
    [ Fs |-> Fs, channels |-> channels, streams |-> streams,
      coupled_streams |-> coupled_streams ]

\* new OpusMultistreamDecoder(...): the module afterwards, what was thrown
\* (0 when the decoder was made) and the call of the native constructor
OpusMultistreamDecoder(module, sampleRate, channels, streams, coupled_channels, mappings, error) ==
    IF Len(mappings) < channels
    THEN [ module |-> module, thrown |-> OPUS_BAD_ARG, created |-> NoCreate ]
    ELSE
        LET stackTop == module.sp
            m1 == stackAlloc(stackSave(module), Len(mappings))
        IN  IF \E index \in 1 .. channels :
                    mappings[index] < 0 \/ mappings[index] > 255
            THEN [ module |-> m1, thrown |-> OPUS_BAD_ARG, created |-> NoCreate ]
            ELSE [ module |-> stackRestore(stackAlloc(m1, 4), stackTop),
                   thrown |-> error,
                   created |-> opus_multistream_decoder_create(
                                   sampleRate, channels, coupled_channels, streams) ]

NewAp ==
    [ errored |-> FALSE,
      setupData |-> NoSetup,
      hasModule |-> FALSE,
      hasDecoder |-> FALSE,
      decoder |-> NewOpusDecoder(0),
      module |-> NewModule,
      created |-> NoCreate,
      thrown |-> 0,
      topBefore |-> ScratchTop,
      submitted |-> 0,
      early |-> { },
      played |-> << >>,
      op |-> "new" ]

ApIdle ==
    ap = NewAp

ApInit ==
    ap = NewAp

\* decodeAndPlay(unit) for the unit numbered id
decodeAndPlay(p0, id, inputLength, error, native) ==
    LET p == [ p0 EXCEPT !.submitted = id, !.op = "decodeAndPlay",
                         !.early = IF p0.setupData = NoSetup \/ ~p0.hasModule
                                   THEN @ \cup { id } ELSE @ ]
    IN  IF p.errored THEN p
        ELSE IF p.setupData = NoSetup THEN [ p EXCEPT !.errored = TRUE ]
        ELSE IF ~p.hasDecoder /\ ~p.hasModule THEN p
        ELSE
            LET made == OpusMultistreamDecoder(p.module, p.setupData.sampleRate,
                            p.setupData.channels, p.setupData.streams,
                            p.setupData.coupledStreams, p.setupData.mapping, error)
                p1 == IF p.hasDecoder THEN p
                      ELSE [ p EXCEPT !.module = made.module,
                                      !.created = made.created,
                                      !.thrown = made.thrown,
                                      !.topBefore = p.module.sp,
                                      !.op = "create",
                                      !.hasDecoder = made.thrown = 0,
                                      !.errored = made.thrown # 0,
                                      !.decoder = NewOpusDecoder(p.setupData.channels) ]
            IN  IF p1.errored THEN p1
                ELSE
                    LET d == decodeFloat(p1.decoder, inputLength,
                                 p1.setupData.samplesPerFrame * p1.setupData.channels,
                                 p1.setupData.samplesPerFrame, native)
                    IN  IF d.outcome # "returned"
                        THEN [ p1 EXCEPT !.decoder = d, !.errored = TRUE ]
                        ELSE [ p1 EXCEPT !.decoder = d, !.played = Append(@, id) ]

ApSetup(setup) ==
    /\ ap.setupData = NoSetup
    /\ ap' = [ ap EXCEPT !.setupData = setup, !.op = "setup" ]
    /\ UNCHANGED << tr, vdp, mse, oh, bp, mp4, cv, od, bb >>

\* loadOpus().then(module => this.opusModule = module)
ApModuleLoaded ==
    /\ ~ap.hasModule
    /\ ap' = [ ap EXCEPT !.hasModule = TRUE, !.op = "loaded" ]
    /\ UNCHANGED << tr, vdp, mse, oh, bp, mp4, cv, od, bb >>

ApDecodeAndPlay(inputLength, error, native) ==
    /\ ap.submitted < MaxApUnits
    /\ ap' = decodeAndPlay(ap, ap.submitted + 1, inputLength, error, native)
    /\ UNCHANGED << tr, vdp, mse, oh, bp, mp4, cv, od, bb >>

(***************************************************************************)
(* OpenH264DecoderPipe: a software H.264 decoder whose WASM module is      *)
(* loaded asynchronously by the constructor.                               *)
(*                                                                         *)
(* oh is the record                                                        *)
(*   isReady, hasDecoder, errored   the fields (decoder is null or not)    *)
(*   load                     "pending", "done" or "failed": the promise   *)
(*                            of createOpenH264Module                      *)
(*   setupPhase               "new", "waiting" (on onReady), "done",       *)
(*                            "rejected"                                   *)
(*   destroyed                decoder.destroy() has been called            *)
(*   submitted                the units given to submitDecodeUnit, in order*)
(*   decoded                  the units given to decoder.decode, in order  *)
(*   op                       the last operation                           *)
(***************************************************************************)
\* units submitted to one pipe
MaxOhUnits == 3

NewOh ==
    [ isReady |-> FALSE,
      hasDecoder |-> FALSE,
      errored |-> FALSE,
      load |-> "pending",
      setupPhase |-> "new",
      destroyed |-> FALSE,
      submitted |-> << >>,
      decoded |-> << >>,
      op |-> "new" ]

\* decodeThrows: the decode call of the library throws for this unit
OhSubmitDecodeUnit(o, unit, decodeThrows) ==
    LET o1 == [ o EXCEPT !.submitted = Append(@, unit) ]
    IN  IF o1.errored THEN o1
        ELSE IF ~o1.hasDecoder THEN o1
        ELSE [ o1 EXCEPT !.decoded = Append(@, unit),
                         !.errored = decodeThrows ]

\* setup awaits onReady unless the pipe is ready, then sets up the base
OhSetupOp(o) ==
    IF o.isReady THEN [ o EXCEPT !.setupPhase = "done" ]
    ELSE IF o.load = "failed" THEN [ o EXCEPT !.setupPhase = "rejected" ]
    ELSE [ o EXCEPT !.setupPhase = "waiting" ]

OhCleanupOp(o) ==
    IF o.hasDecoder THEN [ o EXCEPT !.destroyed = TRUE ] ELSE o

OhInit ==
    oh = NewOh

OhIdle ==
    oh = NewOh

\* the module is loaded: the continuation creates the decoder
OhModuleReady ==
    /\ oh.load = "pending"
    /\ oh' = [ oh EXCEPT !.load = "done", !.hasDecoder = TRUE, !.isReady = TRUE,
                         !.setupPhase = IF @ = "waiting" THEN "done" ELSE @,
                         !.op = "ready" ]
    /\ UNCHANGED << tr, vdp, mse, bp, mp4, cv, od, ap, bb >>

\* the import or the module factory rejects: the decoder stays null
OhModuleFails ==
    /\ oh.load = "pending"
    /\ oh' = [ oh EXCEPT !.load = "failed",
                         !.setupPhase = IF @ = "waiting" THEN "rejected" ELSE @,
                         !.op = "failed" ]
    /\ UNCHANGED << tr, vdp, mse, bp, mp4, cv, od, ap, bb >>

OhSetup ==
    /\ oh.setupPhase = "new"
    /\ oh' = [ OhSetupOp(oh) EXCEPT !.op = "setup" ]
    /\ UNCHANGED << tr, vdp, mse, bp, mp4, cv, od, ap, bb >>

OhSubmit(unit, decodeThrows) ==
    /\ Len(oh.submitted) < MaxOhUnits
    /\ oh' = [ OhSubmitDecodeUnit(oh, unit, decodeThrows) EXCEPT !.op = "submit" ]
    /\ UNCHANGED << tr, vdp, mse, bp, mp4, cv, od, ap, bb >>

OhCleanup ==
    /\ oh.op # "cleanup"
    /\ oh' = [ OhCleanupOp(oh) EXCEPT !.op = "cleanup" ]
    /\ UNCHANGED << tr, vdp, mse, bp, mp4, cv, od, ap, bb >>

(***************************************************************************)
(* buildVideoPipeline: the choice of a chain of pipes and a renderer from  *)
(* the preference table PIPELINES.                                         *)
(*                                                                         *)
(* A codec support is a function from VideoCodecs to 0 (false), 1 ("maybe")*)
(* or 2 (true).                                                            *)
(*                                                                         *)
(* bp is the record                                                        *)
(*   env                      the answers of the environment:              *)
(*     unavailable            the pipes and renderers whose info says      *)
(*                            environmentSupported: false                  *)
(*     infoMissing            the pipes gatherPipeInfo has no entry for    *)
(*     decoderCodecs          the codec support VideoDecoder reports       *)
(*     buildFails             the chains for which buildPipeline returns   *)
(*                            null                                         *)
(*   type                     the requested input kind                     *)
(*   settings                 supportedVideoCodecs, canvasRenderer,        *)
(*                            forceVideoElementRenderer                    *)
(*   asked                    the settings of the first call               *)
(*   results                  the results of the calls made, in order      *)
(***************************************************************************)
\* pipes and renderers the environment does not support
MaxUnsupported == 1
\* chains whose construction fails
MaxBuildFailures == 1
\* calls of buildVideoPipeline
MaxBuilds == 2

VideoCodecs == { "H264", "H265" }

emptyVideoCodecs == [ c \in VideoCodecs |-> 0 ]
allVideoCodecs == [ c \in VideoCodecs |-> 2 ]

Min(a, b) == IF a <= b THEN a ELSE b

andVideoCodecs(a, b) ==
    [ c \in VideoCodecs |-> Min(a[c], b[c]) ]

hasAnyCodec(codecs) ==
    \E c \in VideoCodecs : codecs[c] # 0

VIDEO_RENDERERS ==
    << "VideoElementRenderer", "MainCanvasRenderer", "OffscreenCanvasRenderer" >>

Pipeline(input, pipes, renderer) ==
    [ input |-> input, pipes |-> pipes, renderer |-> renderer ]

PIPELINES ==
    << Pipeline("videotrack", << >>, "VideoElementRenderer"),
       Pipeline("videotrack",
                << "VideoMediaStreamTrackProcessorPipe", "CanvasFrameDrawPipe" >>,
                "MainCanvasRenderer"),
       Pipeline("videotrack",
                << "WorkerVideoTrackSendPipe",
                   "WorkerVideoMediaStreamProcessorCanvasPipe" >>,
                "OffscreenCanvasRenderer"),
       Pipeline("videotrack",
                << "WorkerVideoTrackSendPipe", "WorkerVideoMediaStreamProcessorPipe",
                   "WorkerVideoFrameReceivePipe" >>,
                "MainCanvasRenderer"),
       Pipeline("data",
                << "DepacketizeVideoPipe", "WorkerVideoDataSendPipe",
                   "WorkerDataToVideoTrackPipe", "WorkerVideoTrackReceivePipe" >>,
                "VideoElementRenderer"),
       Pipeline("data",
                << "DepacketizeVideoPipe", "VideoDecoderPipe",
                   "VideoMediaStreamTrackGeneratorPipe" >>,
                "VideoElementRenderer"),
       Pipeline("data",
                << "DepacketizeVideoPipe", "VideoDecoderPipe", "CanvasFrameDrawPipe" >>,
                "MainCanvasRenderer"),
       Pipeline("data",
                << "DepacketizeVideoPipe", "WorkerVideoDataSendPipe",
                   "WorkerDataToCanvasRenderOpenH264Pipe" >>,
                "OffscreenCanvasRenderer"),
       Pipeline("data",
                << "DepacketizeVideoPipe", "OpenH264DecoderPipe",
                   "Yuv420ToRgbaFramePipe", "CanvasRgbaFrameDrawPipe" >>,
                "MainCanvasRenderer") >>

\* The classes a class extends, itself included.
SuperClasses(class) ==
    IF class \in { "MainCanvasRenderer", "OffscreenCanvasRenderer" }
    THEN { class, "BaseCanvasVideoRenderer" }
    ELSE { class }

\* value instanceof class.  A value is an object made by a constructor or the
\* constructor itself; the prototype of a class is in the prototype chain of the
\* objects its constructor and those of its subclasses make, and not in the
\* chain of a constructor.
InstanceOf(value, class) ==
    value.object /\ class \in SuperClasses(value.class)

\* the value of the field "renderer" of a table entry: the class
RendererValue(pipeline) ==
    [ object |-> FALSE, class |-> pipeline.renderer ]

FORCE_CANVAS_PIPELINES ==
    SelectSeq(PIPELINES,
              LAMBDA pipeline :
                  InstanceOf(RendererValue(pipeline), "BaseCanvasVideoRenderer"))

RECURSIVE Range(_)
Range(s) ==
    IF s = << >> THEN { } ELSE { Head(s) } \cup Range(Tail(s))

AllPipes ==
    UNION { Range(PIPELINES[i].pipes) : i \in 1 .. Len(PIPELINES) }

\* getInfo of a pipe: environmentSupported and supportedVideoCodecs (none: the
\* info has no such field)
PipeCodecs(env, pipe) ==
    IF pipe \in { "VideoDecoderPipe", "WorkerDataToVideoTrackPipe" }
    THEN [ has |-> TRUE,
           codecs |-> IF pipe \in env.unavailable THEN emptyVideoCodecs
                      ELSE env.decoderCodecs ]
    ELSE IF pipe \in { "OpenH264DecoderPipe", "WorkerDataToCanvasRenderOpenH264Pipe" }
    THEN [ has |-> TRUE, codecs |-> [ emptyVideoCodecs EXCEPT !["H264"] = 2 ] ]
    ELSE IF pipe \in { "CanvasFrameDrawPipe", "CanvasRgbaFrameDrawPipe" }
    THEN [ has |-> TRUE, codecs |-> allVideoCodecs ]
    ELSE [ has |-> FALSE, codecs |-> emptyVideoCodecs ]

gatherPipeInfo(env, pipe) ==
    [ missing |-> pipe \in env.infoMissing,
      environmentSupported |-> pipe \notin env.unavailable,
      supportedVideoCodecs |-> PipeCodecs(env, pipe) ]

NoChain == [ error |-> TRUE, chain |-> Pipeline("", << >>, ""),
             supportedCodecs |-> emptyVideoCodecs ]

\* the inner loop over the pipes of a chain: the running codec support, or
\* "skip" for continue pipelineLoop
RECURSIVE PipesLoop(_, _, _)
PipesLoop(env, pipes, supportedCodecs) ==
    IF pipes = << >> THEN [ skip |-> FALSE, supportedCodecs |-> supportedCodecs ]
    ELSE
        LET pipeInfo == gatherPipeInfo(env, Head(pipes))
        IN  IF pipeInfo.missing \/ ~pipeInfo.environmentSupported
            THEN [ skip |-> TRUE, supportedCodecs |-> supportedCodecs ]
            ELSE PipesLoop(env, Tail(pipes),
                           IF pipeInfo.supportedVideoCodecs.has
                           THEN andVideoCodecs(supportedCodecs,
                                               pipeInfo.supportedVideoCodecs.codecs)
                           ELSE supportedCodecs)

\* pipelineLoop returning the last chain that passes
RECURSIVE pipelineLoopLast(_, _, _, _)
pipelineLoopLast(env, pipelines, type, settings) ==
    IF pipelines = << >> THEN NoChain
    ELSE
        LET pipeline == Head(pipelines)
            rest == pipelineLoopLast(env, Tail(pipelines), type, settings)
            inner == PipesLoop(env, pipeline.pipes, settings.supportedVideoCodecs)
        IN  IF ~rest.error THEN rest
            ELSE IF pipeline.input # type THEN rest
            ELSE IF inner.skip THEN rest
            ELSE IF pipeline.renderer \in env.unavailable THEN rest
            ELSE IF ~hasAnyCodec(inner.supportedCodecs) THEN rest
            ELSE IF pipeline \in env.buildFails THEN rest
            ELSE [ error |-> FALSE, chain |-> pipeline,
                   supportedCodecs |-> inner.supportedCodecs ]

\* pipelineLoop over the chains of "pipelines" in order: the first chain that
\* passes every test and that buildPipeline constructs
RECURSIVE pipelineLoop(_, _, _, _)
pipelineLoop(env, pipelines, type, settings) ==
    IF pipelines = << >> THEN NoChain
    ELSE
        LET pipeline == Head(pipelines)
            rest == pipelineLoop(env, Tail(pipelines), type, settings)
            inner == PipesLoop(env, pipeline.pipes, settings.supportedVideoCodecs)
        IN  IF pipeline.input # type THEN rest
            ELSE IF inner.skip THEN rest
            ELSE IF pipeline.renderer \in env.unavailable THEN rest
            ELSE IF ~hasAnyCodec(inner.supportedCodecs) THEN rest
            ELSE IF pipeline \in env.buildFails THEN rest
            ELSE [ error |-> FALSE, chain |-> pipeline,
                   supportedCodecs |-> inner.supportedCodecs ]

\* buildVideoPipeline: the result and the settings it leaves
buildVideoPipeline(env, type, settings) ==
    IF settings.forceVideoElementRenderer THEN
        IF type # "videotrack" THEN [ result |-> NoChain, settings |-> settings ]
        ELSE
            LET forced == IF ~hasAnyCodec(settings.supportedVideoCodecs)
                          THEN [ settings EXCEPT !.supportedVideoCodecs["H264"] = 2 ]
                          ELSE settings
            IN  [ result |-> [ error |-> FALSE,
                               chain |-> Pipeline("", << >>, "VideoElementRenderer"),
                               supportedCodecs |-> forced.supportedVideoCodecs ],
                  settings |-> forced ]
    ELSE
        [ result |-> pipelineLoop(env,
                                  IF settings.canvasRenderer
                                  THEN FORCE_CANVAS_PIPELINES ELSE PIPELINES,
                                  type, settings),
          settings |-> settings ]

Environments ==
    { [ unavailable |-> u, infoMissing |-> m, decoderCodecs |-> d, buildFails |-> b ] :
        u \in { x \in SUBSET (AllPipes \cup Range(VIDEO_RENDERERS)) :
                    Cardinality(x) <= MaxUnsupported },
        m \in { { }, { "VideoDecoderPipe" } },
        d \in { [ emptyVideoCodecs EXCEPT !["H264"] = 2 ], allVideoCodecs },
        b \in { x \in SUBSET Range(PIPELINES) : Cardinality(x) <= MaxBuildFailures } }

SettingsChoices ==
    [ supportedVideoCodecs :
          { emptyVideoCodecs, [ emptyVideoCodecs EXCEPT !["H264"] = 2 ],
            [ emptyVideoCodecs EXCEPT !["H265"] = 2 ] },
      canvasRenderer : BOOLEAN,
      forceVideoElementRenderer : BOOLEAN ]

BpInit ==
    \E env \in Environments, type \in { "videotrack", "data" },
       settings \in SettingsChoices :
        bp = [ env |-> env, type |-> type, settings |-> settings,
               asked |-> settings, results |-> << >> ]

BpIdle ==
    bp = [ env |-> [ unavailable |-> { }, infoMissing |-> { },
                     decoderCodecs |-> allVideoCodecs, buildFails |-> { } ],
           type |-> "data",
           settings |-> [ supportedVideoCodecs |-> emptyVideoCodecs,
                          canvasRenderer |-> FALSE,
                          forceVideoElementRenderer |-> FALSE ],
           asked |-> [ supportedVideoCodecs |-> emptyVideoCodecs,
                       canvasRenderer |-> FALSE,
                       forceVideoElementRenderer |-> FALSE ],
           results |-> << >> ]

\* one call with the options object of the calls before it
BpBuild ==
    /\ Len(bp.results) < MaxBuilds
    /\ LET r == buildVideoPipeline(bp.env, bp.type, bp.settings)
       IN  bp' = [ bp EXCEPT !.results = Append(@, r.result),
                             !.settings = r.settings ]
    /\ UNCHANGED << tr, vdp, mse, oh, mp4, cv, od, ap, bb >>


(***************************************************************************)
(* Specifications.                                                         *)
(***************************************************************************)
InitTr ==
    TrInit /\ VdpIdle /\ MseIdle /\ OhIdle /\ BpIdle /\ Mp4Idle /\ CvIdle /\ OdIdle /\ ApIdle /\ BbIdle

NextTr ==
    \/ \E unit \in UnitsOf(tr.t.kind) : TrSubmitCatalog(unit)
    \/ \E S \in SpsChoices, P \in PpsChoices, I \in IdrChoices,
          startCodes \in [ 1 .. 3 -> { 3, 4 } ] :
            TrSubmitParts(S, P, I, startCodes)

SpecTr ==
    InitTr /\ [][NextTr]_vars

Init ==
    TrIdle /\ VdpInit /\ MseIdle /\ OhIdle /\ BpIdle /\ Mp4Idle /\ CvIdle /\ OdIdle /\ ApIdle /\ BbIdle

Next ==
    \/ \E fps \in FpsChoices : VdpSetupStart(fps)
    \/ \E inBand \in SUBSET { 1, 2, 3 }, outOfBand \in SUBSET { 1, 2, 3 } :
            VdpSetupFinish(inBand, outOfBand)
    \/ \E unit \in VdpUnits(vdp.setupCodec) : VdpSubmit(unit)
    \/ \E baseAnswer \in BOOLEAN : VdpPoll(baseAnswer)
    \/ VdpCleanup
    \/ VdpDecoderOutput
    \/ VdpDecoderError

Spec ==
    Init /\ [][Next]_vars

InitMse ==
    TrIdle /\ VdpIdle /\ MseInit /\ OhIdle /\ BpIdle /\ Mp4Idle /\ CvIdle /\ OdIdle /\ ApIdle /\ BbIdle

NextMse ==
    \/ MseSetup
    \/ MseSourceOpen
    \/ \E unit \in MseUnits, supported \in BOOLEAN : MseSubmit(unit, supported)
    \/ MseUpdateEnd
    \/ MseSourceBufferError
    \/ \E baseAnswer \in BOOLEAN : MsePoll(baseAnswer)
    \/ MseCleanup

SpecMse ==
    InitMse /\ [][NextMse]_vars

\* the two decoders that keep an errored flag: a behaviour drives the
\* VideoDecoderPipe when a codec was chosen for it, else the MediaSourceDecoder
InitDecoders ==
    TrIdle /\ (VdpInit \/ VdpIdle) /\ MseInit /\ OhIdle /\ BpIdle /\ Mp4Idle /\ CvIdle /\ OdIdle /\ ApIdle /\ BbIdle

NextDecoders ==
    \/ (vdp.setupCodec # "none" /\ Next)
    \/ (vdp.setupCodec = "none" /\ NextMse)

SpecDecoders ==
    InitDecoders /\ [][NextDecoders]_vars

InitMp4 ==
    TrIdle /\ VdpIdle /\ MseIdle /\ OhIdle /\ BpIdle /\ Mp4Init /\ CvIdle /\ OdIdle /\ ApIdle /\ BbIdle

NextMp4 ==
    \E unit \in H264Units, sequenceNumber \in { 1 } \cup Mp4SequenceNumbers,
       baseDecodeTime \in { 0 } \cup Mp4DecodeTimes, frameDuration \in Mp4Durations :
        Mp4PutVideoFrameSegment(unit, sequenceNumber, baseDecodeTime, frameDuration)

SpecMp4 ==
    InitMp4 /\ [][NextMp4]_vars

InitCv ==
    TrIdle /\ VdpIdle /\ MseIdle /\ OhIdle /\ BpIdle /\ Mp4Idle /\ CvInit /\ OdIdle /\ ApIdle /\ BbIdle

NextCv ==
    \/ CvSetup
    \/ CvCleanup
    \/ \E width \in FrameWidths, error \in BOOLEAN : CvSubmitFrame(width, error)
    \/ \E error \in BOOLEAN : CvOnAnimationFrame(error)

SpecCv ==
    InitCv /\ [][NextCv]_vars

InitSps ==
    TrIdle /\ VdpIdle /\ MseIdle /\ OhIdle /\ BpIdle /\ Mp4Idle /\ CvIdle /\ OdIdle /\ ApIdle /\ BbIdle

NextSps ==
    \/ \E unit \in H264Units : TrSubmitCatalog(unit)
    \/ \E S \in SpsProfileChoices, startCodes \in { << 4, 4, 3 >>, << 3, 3, 4 >> } :
           TrSubmitParts(S, H264_PPS, H264_IDR, startCodes)

SpecSps ==
    InitSps /\ [][NextSps]_vars

TrInitH265 ==
    tr = [ t |-> NewTranslator("h265"), step |-> 0, parts |-> NoParts,
           unit |-> Unit("none", << >>, 0), res |-> NoResult,
           configured |-> FALSE, configuredBefore |-> FALSE ]

InitHvcC ==
    TrInitH265 /\ VdpIdle /\ MseIdle /\ OhIdle /\ BpIdle /\ Mp4Idle /\ CvIdle /\ OdIdle /\ ApIdle /\ BbIdle

NextHvcC ==
    \/ \E unit \in H265Units : TrSubmitCatalog(unit)
    \/ \E V \in VpsChoices, S \in H265SpsChoices, P \in H265PpsChoices,
          startCodes \in [ 1 .. 4 -> { 3, 4 } ] :
            TrSubmitH265Parts(V, S, P, startCodes)

SpecHvcC ==
    InitHvcC /\ [][NextHvcC]_vars

InitOd ==
    TrIdle /\ VdpIdle /\ MseIdle /\ OhIdle /\ BpIdle /\ Mp4Idle /\ CvIdle /\ OdInit /\ ApIdle /\ BbIdle

NextOd ==
    \/ \E inputLength \in OpusInputLengths, frameSize \in OpusFrameSizes,
          outputFloats \in { c * f : c \in OpusChannels, f \in OpusFrameSizes } :
            \E native \in NativeResults(frameSize) :
                OdDecodeFloat(inputLength, outputFloats, frameSize, native)
    \/ OdDestroy

SpecOd ==
    InitOd /\ [][NextOd]_vars

\* the units of the append-queue properties: key units that carry their
\* parameter sets with and without an IDR, a key unit with the IDR alone and
\* a delta unit
MseQueueUnits ==
    { Unit("key", AnnexB(<< 4, 4, 3 >>, << H264_SPS, H264_PPS, H264_IDR >>), ts) :
        ts \in KeyTimestampChoices }
    \cup { Unit("key", AnnexB(<< 4, 4 >>, << H264_SPS, H264_PPS >>), 0) }
    \cup { Unit("key", AnnexB(<< 4 >>, << H264_IDR >>), 0) }
    \cup { Unit("delta", AnnexB(<< 4 >>, << H264_SLICE >>), 16667) }

NextMseQueue ==
    \/ MseSetup
    \/ MseSourceOpen
    \/ \E unit \in MseQueueUnits, supported \in BOOLEAN : MseSubmit(unit, supported)
    \/ MseUpdateEnd
    \/ MseSourceBufferError
    \/ \E baseAnswer \in BOOLEAN : MsePoll(baseAnswer)
    \/ MseCleanup

SpecMseQueue ==
    InitMse /\ [][NextMseQueue]_vars

\* The append queue with the scheduling of the platform: a source buffer that
\* is updating ends its append, so updateend (or error) is delivered.
MseLiveUnits ==
    { Unit("key", AnnexB(<< 4, 4, 3 >>, << H264_SPS, H264_PPS, H264_IDR >>), 0),
      Unit("key", AnnexB(<< 4, 4 >>, << H264_SPS, H264_PPS >>), 0),
      Unit("delta", AnnexB(<< 4 >>, << H264_SLICE >>), 16667) }

NextMseLive ==
    \/ MseSetup
    \/ MseSourceOpen
    \/ \E unit \in MseLiveUnits, supported \in BOOLEAN : MseSubmit(unit, supported)
    \/ MseUpdateEnd
    \/ MseSourceBufferError
    \/ \E baseAnswer \in BOOLEAN : MsePoll(baseAnswer)
    \/ MseCleanup

SpecMseLive ==
    InitMse /\ [][NextMseLive]_vars /\ WF_vars(MseUpdateEnd)

\* units whose start codes enclose nothing (empty data, two adjacent start
\* codes, a start code at the very end), and a unit with a zero byte between
\* a NAL and the next start code (trailing_zero_8bits)
EdgeUnits(kind) ==
    LET idr == IF kind = "h264" THEN H264_IDR ELSE H265_IDR
        slice == IF kind = "h264" THEN H264_SLICE ELSE H265_SLICE
    IN  { Unit("key", << >>, 0),
          Unit("key", AnnexB(<< 3, 3 >>, << << >>, idr >>), 0),
          Unit("key", AnnexB(<< 4, 3 >>, << idr, << >> >>), 0),
          Unit("delta", AnnexB(<< 4, 4 >>, << slice, << >> >>), 0),
          Unit("key", AnnexB(<< 4, 4 >>, << idr \o << 0 >>, idr >>), 0) }

InitAnnexB ==
    TrInit /\ VdpIdle /\ MseIdle /\ OhIdle /\ BpIdle /\ Mp4Idle /\ CvIdle /\ OdIdle /\ ApIdle /\ BbIdle

NextAnnexB ==
    \E unit \in UnitsOf(tr.t.kind) \cup EdgeUnits(tr.t.kind) : TrSubmitCatalog(unit)

SpecAnnexB ==
    InitAnnexB /\ [][NextAnnexB]_vars

InitAp ==
    TrIdle /\ VdpIdle /\ MseIdle /\ OhIdle /\ BpIdle /\ Mp4Idle /\ CvIdle /\ OdIdle /\ ApInit /\ BbIdle

NextAp ==
    \/ \E setup \in AudioSetups : ApSetup(setup)
    \/ ApModuleLoaded
    \/ \E inputLength \in AudioDataLengths, error \in NativeCreateErrors,
          native \in NativeDecodeResults(240) :
            ApDecodeAndPlay(inputLength, error, native)

SpecAp ==
    InitAp /\ [][NextAp]_vars

InitBb ==
    TrIdle /\ VdpIdle /\ MseIdle /\ OhIdle /\ BpIdle /\ Mp4Idle /\ CvIdle /\ OdIdle /\ ApIdle /\ BbInit

NextBb ==
    \/ \E kind \in PutKinds, index \in BbIndexes : BbPut(kind, index)
    \/ \E kind \in { "F32", "Utf8Raw" } : BbPut(kind, Undefined)
    \/ \E kind \in GetKinds : BbGet(kind)
    \/ BbReset
    \/ BbFlip

SpecBb ==
    InitBb /\ [][NextBb]_vars

\* the units of the key-chunk property: those of the negotiated codec and,
\* for H.264, a delta unit that carries an SPS and a PPS before its slice
ParameterDeltaUnits(setupCodec) ==
    IF setupCodec = "H264" THEN
        { Unit("key", AnnexB(<< 4, 4, 3 >>, << H264_SPS, H264_PPS, H264_IDR >>), 0),
          Unit("delta", AnnexB(<< 4 >>, << H264_SLICE >>), 16667),
          Unit("delta", AnnexB(<< 4, 4, 3 >>, << H264_SPS, H264_PPS, H264_SLICE >>), 33334) }
    ELSE VdpUnits(setupCodec)

NextKeyChunk ==
    \/ \E fps \in FpsChoices : VdpSetupStart(fps)
    \/ \E inBand \in SUBSET { 1, 2, 3 }, outOfBand \in SUBSET { 1, 2, 3 } :
            VdpSetupFinish(inBand, outOfBand)
    \/ \E unit \in ParameterDeltaUnits(vdp.setupCodec) : VdpSubmit(unit)
    \/ \E baseAnswer \in BOOLEAN : VdpPoll(baseAnswer)
    \/ VdpCleanup
    \/ VdpDecoderOutput
    \/ VdpDecoderError

SpecKeyChunk ==
    Init /\ [][NextKeyChunk]_vars

InitOh ==
    TrIdle /\ VdpIdle /\ MseIdle /\ OhInit /\ BpIdle /\ Mp4Idle /\ CvIdle /\ OdIdle /\ ApIdle /\ BbIdle

NextOh ==
    \/ OhModuleReady
    \/ OhModuleFails
    \/ OhSetup
    \/ \E unit \in VdpUnits("H264"), decodeThrows \in BOOLEAN :
            OhSubmit(unit, decodeThrows)
    \/ OhCleanup

SpecOh ==
    InitOh /\ [][NextOh]_vars

InitBp ==
    TrIdle /\ VdpIdle /\ MseIdle /\ OhIdle /\ BpInit /\ Mp4Idle /\ CvIdle /\ OdIdle /\ ApIdle /\ BbIdle

NextBp ==
    BpBuild

SpecBp ==
    InitBp /\ [][NextBp]_vars

(***************************************************************************)
(* Claims.                                                                 *)
(***************************************************************************)
\* n as "width" big-endian bytes
RECURSIVE BigEndian(_, _)
BigEndian(n, width) ==
    IF width = 0 THEN << >>
    ELSE BigEndian(n \div 256, width - 1) \o << n % 256 >>

\* the byte string holds a start code 00 00 01 (and so every 00 00 00 01)
HoldsStartCode(bytes) ==
    \E i \in 1 .. (Len(bytes) - 2) :
        bytes[i] = 0 /\ bytes[i + 1] = 0 /\ bytes[i + 2] = 1

EndsInZero(bytes) ==
    bytes # << >> /\ bytes[Len(bytes)] = 0

\* a unit SPS, PPS, IDR with drawn NALs has just been submitted
DrawnUnitSubmitted ==
    tr.parts # NoParts

\* what claim C1 promises of the result for the drawn NALs S, P, I
C1_Promise ==
    LET S == tr.parts.S
        P == tr.parts.P
        I == tr.parts.I
        d == tr.t.description
    IN  /\ ~tr.res.thrown
        /\ ~tr.res.error
        /\ tr.res.chunk = BigEndian(Len(I), 4) \o I
        /\ tr.res.configure
        /\ d # NullBytes
        /\ Len(d) >= 11 + Len(S) + Len(P)
        /\ SubSeq(d, 7, 8 + Len(S)) = BigEndian(Len(S), 2) \o S
        /\ SubSeq(d, 10 + Len(S), 11 + Len(S) + Len(P))
               = BigEndian(Len(P), 2) \o P
        /\ tr.t.hasDescription

\* C1 as stated: for every key unit made of an SPS S, a PPS P and an IDR I,
\* each behind a 3- or 4-byte start code, for all byte strings S, P, I (here:
\* every S long enough to be parsed), the chunk is u32be(|I|) || I, configure is
\* returned with a description built from S and P, and hasDescription is set.
C1_AllByteStrings ==
    (DrawnUnitSubmitted /\ Len(tr.parts.S) >= 4) => C1_Promise

\* C1 amended: the same for all S, P, I that hold no start code 00 00 01, with
\* S of at least 4 bytes and neither S nor P ending in a 00 byte.
C1_CleanNals ==
    ( /\ DrawnUnitSubmitted
      /\ Len(tr.parts.S) >= 4
      /\ ~HoldsStartCode(tr.parts.S)
      /\ ~HoldsStartCode(tr.parts.P)
      /\ ~HoldsStartCode(tr.parts.I)
      /\ ~EndsInZero(tr.parts.S)
      /\ ~EndsInZero(tr.parts.P) ) => C1_Promise

\* a clean unit mixing 3- and 4-byte start codes was translated and configured
C1_Witness ==
    /\ DrawnUnitSubmitted
    /\ tr.parts.startCodes = << 3, 4, 3 >>
    /\ Len(tr.parts.S) >= 4
    /\ ~EndsInZero(tr.parts.S)
    /\ ~EndsInZero(tr.parts.P)
    /\ Len(tr.parts.I) > 1
    /\ C1_Promise

\* C2: the AVCC description synthesized from S and P is exactly
\* 01 S[1] S[2] S[3] FF E1 u16be(|S|) S 01 u16be(|P|) P, of 11 + |S| + |P| bytes,
\* with nothing after the PPS bytes.
C2_AvcCLayout ==
    ( /\ DrawnUnitSubmitted
      /\ C1_Promise ) =>
        tr.t.description =
            << 1, tr.parts.S[2], tr.parts.S[3], tr.parts.S[4], 255, 225 >>
            \o BigEndian(Len(tr.parts.S), 2) \o tr.parts.S
            \o << 1 >> \o BigEndian(Len(tr.parts.P), 2) \o tr.parts.P

\* what the code produces: that layout followed by one byte 00
C2_AvcCLayoutThenZero ==
    ( /\ DrawnUnitSubmitted
      /\ C1_Promise ) =>
        tr.t.description =
            << 1, tr.parts.S[2], tr.parts.S[3], tr.parts.S[4], 255, 225 >>
            \o BigEndian(Len(tr.parts.S), 2) \o tr.parts.S
            \o << 1 >> \o BigEndian(Len(tr.parts.P), 2) \o tr.parts.P
            \o << 0 >>

\* the decode queue holds a backlog of more than 200 ms and more than 2 units
Backlog(v) ==
    /\ v.fps > 0
    /\ v.decoder.decodeQueueSize * 1000 > 200 * v.fps
    /\ v.decoder.decodeQueueSize > 2

MadeCall(v, name) ==
    \E i \in 1 .. Len(v.calls) : v.calls[i].name = name

\* the submitted unit resets the stream for the pipe: any key unit without a
\* translator, a unit that made the translator return a configuration with one
ClearsLatch(v) ==
    /\ v.op = "submit"
    /\ IF v.translator = "none" THEN v.opUnit.type = "key"
       ELSE MadeCall(v, "configure")

C5_NoCallAfterCleanup ==
    (vdp.cleaned /\ vdp.op = "submit") => vdp.calls = << >>

\* the H.265 key unit that carries SPS, PPS and an IDR but no VPS
H265KeyUnitWithoutVps ==
    Unit("key", AnnexB(<< 4, 4, 3 >>, << H265_SPS, H265_PPS, H265_IDR >>), 0)

\* C9: with the H.265 translator and no description yet, a key unit without a
\* VPS causes no decoder.decode call and no error.
C9_KeyUnitWithoutVpsDropped ==
    ( /\ vdp.op = "submit"
      /\ vdp.translator = "h265"
      /\ vdp.decoderSetupFinished
      /\ ~vdp.cleaned
      /\ ~vdp.t.hasDescription
      /\ vdp.opUnit = H265KeyUnitWithoutVps ) =>
        (~MadeCall(vdp, "decode") /\ ~vdp.thrown /\ ~vdp.errored)

\* what the code does for that unit on a pipe that has not configured its
\* decoder: it hands the IDR to the unconfigured decoder, which throws
C9_KeyUnitWithoutVpsThrows ==
    ( /\ vdp.op = "submit"
      /\ vdp.translator = "h265"
      /\ vdp.decoderSetupFinished
      /\ ~vdp.cleaned
      /\ ~vdp.errored
      /\ ~vdp.t.hasDescription
      /\ vdp.opUnit = H265KeyUnitWithoutVps ) =>
        (MadeCall(vdp, "decode") /\ vdp.thrown)

\* the frame segments pushed to the append queue, in order
PushedFrames ==
    SelectSeq(mse.pushed, LAMBDA segment : segment.kind = "frame")

KeyUnitAt(ts) ==
    Unit("key", AnnexB(<< 4, 4, 3 >>, << H264_SPS, H264_PPS, H264_IDR >>), ts)

DeltaUnitAt(ts) ==
    Unit("delta", AnnexB(<< 4 >>, << H264_SLICE >>), ts)

\* fps = 60; a configuring key unit at 0 and delta units at 16667, 16666 and
\* 40000 were submitted and made four frame segments
C4_Scenario ==
    /\ mse.fps = 60
    /\ mse.submitted = << KeyUnitAt(0), DeltaUnitAt(16667),
                          DeltaUnitAt(16666), DeltaUnitAt(40000) >>
    /\ Len(PushedFrames) = 4

\* C4 as stated: the four tfdt base decode times are 0, 16667, 16667 + 16666
\* and 40000 + 16666.
C4_LastFrameBumped ==
    C4_Scenario =>
        [ i \in 1 .. 4 |-> PushedFrames[i].baseDecodeTime ]
            = << << 0, 0 >>, << 0, 16667 >>, << 0, 16667 + 16666 >>,
                 << 0, 40000 + 16666 >> >>

\* C4 amended: the four tfdt base decode times are 0, 16667, 16667 + 16666 and
\* 40000; the last timestamp exceeds the one before it and is kept.
C4_LastFrameKept ==
    C4_Scenario =>
        [ i \in 1 .. 4 |-> PushedFrames[i].baseDecodeTime ]
            = << << 0, 0 >>, << 0, 16667 >>, << 0, 16667 + 16666 >>,
                 << 0, 40000 >> >>

\* the four units were submitted to a decoder that was set up and open
C4_Witness ==
    /\ C4_Scenario
    /\ ~mse.errored
    /\ ~mse.everThrown
    /\ PushedFrames[3].baseDecodeTime = << 0, 33333 >>
    /\ PushedFrames[4].sequenceNumber = 4

\* C5 for MediaSourceDecoder: after cleanup() a further submitDecodeUnit creates
\* no source buffer and queues no segment.
C5_NoSegmentAfterCleanup ==
    (mse.cleaned /\ mse.op = "submit") => (mse.opPushed = 0 /\ mse.opCreated = 0)

\* one configuring key unit followed by delta units, without an exception
\* and without an error of the source buffer
C10_Stream ==
    /\ mse.submitted # << >>
    /\ mse.submitted[1] \in { KeyUnitAt(ts) : ts \in KeyTimestampChoices }
    /\ \A i \in 2 .. Len(mse.submitted) : mse.submitted[i].type = "delta"
    /\ ~mse.errored
    /\ ~mse.everThrown

BaseDecodeTimeBefore(a, b) ==
    a[1] < b[1] \/ (a[1] = b[1] /\ a[2] < b[2])

\* C10: for one configuring key unit followed by N-1 delta units the append
\* queue has received one init segment and then N frame segments with mfhd
\* sequence numbers 1..N and tfdt base decode times that start at 0 and
\* strictly increase, whatever the timestamps of the units.
C10_Segments ==
    C10_Stream =>
        LET N == Len(mse.submitted)
        IN  /\ Len(mse.pushed) = N + 1
            /\ mse.pushed[1].kind = "init"
            /\ \A i \in 1 .. N :
                  /\ mse.pushed[i + 1].kind = "frame"
                  /\ mse.pushed[i + 1].sequenceNumber = i
            /\ mse.pushed[2].baseDecodeTime = << 0, 0 >>
            /\ \A i \in 2 .. N :
                  BaseDecodeTimeBefore(mse.pushed[i].baseDecodeTime,
                                       mse.pushed[i + 1].baseDecodeTime)

\* a stream of four units in which timestamps repeat and run backwards
C10_Witness ==
    /\ C10_Stream
    /\ Len(mse.submitted) = 4
    /\ mse.submitted[1].timestampMicroseconds = 40000
    /\ mse.submitted[2].timestampMicroseconds = 40000
    /\ mse.submitted[3].timestampMicroseconds = 16666
    /\ Len(PushedFrames) = 4

\* C6: once the module is ready, the units submitted before readiness have been
\* passed to the decoder in arrival order, ahead of every later unit: none is
\* lost.
C6_NothingLostBeforeReady ==
    (oh.isReady /\ ~oh.errored) => oh.decoded = oh.submitted

\* what the code does: a unit is passed to the decoder only if the decoder
\* exists when the unit is submitted, so the decoded units are a suffix of the
\* submitted ones
C6_DecodedIsSuffix ==
    \E k \in 0 .. Len(oh.submitted) :
        oh.decoded = SubSeq(oh.submitted, k + 1, Len(oh.submitted))
        \/ (oh.errored /\ \E n \in 0 .. Len(oh.submitted) :
                oh.decoded = SubSeq(oh.submitted, k + 1, n))

EndsInCanvasRenderer(pipeline) ==
    pipeline.renderer \in { "MainCanvasRenderer", "OffscreenCanvasRenderer" }

\* the least codec support among the requested one and those the pipes of the
\* chain report
ChainCodecs(pipeline) ==
    [ c \in VideoCodecs |->
        LET levels == { bp.asked.supportedVideoCodecs[c] }
                      \cup { PipeCodecs(bp.env, pipe).codecs[c] :
                               pipe \in { q \in Range(pipeline.pipes) :
                                            PipeCodecs(bp.env, q).has } }
        IN  CHOOSE m \in levels : \A x \in levels : m <= x ]

\* the chain takes the requested input, all its pipes and its renderer are
\* supported, it covers a requested codec and it can be constructed
Qualifies(pipeline) ==
    /\ pipeline.input = bp.type
    /\ \A pipe \in Range(pipeline.pipes) :
          pipe \notin bp.env.unavailable /\ pipe \notin bp.env.infoMissing
    /\ pipeline.renderer \notin bp.env.unavailable
    /\ \E c \in VideoCodecs : ChainCodecs(pipeline)[c] # 0
    /\ pipeline \notin bp.env.buildFails

CanvasForced ==
    bp.asked.canvasRenderer /\ ~bp.asked.forceVideoElementRenderer

NothingForced ==
    ~bp.asked.canvasRenderer /\ ~bp.asked.forceVideoElementRenderer

\* C7: with the canvas renderer forced, if a chain of the table that ends in a
\* canvas renderer qualifies for the requested input, a chain ending in a canvas
\* renderer is returned and not an error.
C7_ForcedCanvasChainReturned ==
    ( /\ CanvasForced
      /\ \E i \in 1 .. Len(PIPELINES) :
            EndsInCanvasRenderer(PIPELINES[i]) /\ Qualifies(PIPELINES[i]) ) =>
        \A k \in 1 .. Len(bp.results) :
            ~bp.results[k].error /\ EndsInCanvasRenderer(bp.results[k].chain)

\* what the code does with the canvas renderer forced: it returns an error
C7_ForcedCanvasAlwaysError ==
    CanvasForced => \A k \in 1 .. Len(bp.results) : bp.results[k].error

CarriesLast(unit, nal) ==
    /\ Len(unit.data) >= Len(nal) + 3
    /\ SubSeq(unit.data, Len(unit.data) - Len(nal) + 1, Len(unit.data)) = nal
    /\ SubSeq(unit.data, Len(unit.data) - Len(nal) - 2, Len(unit.data) - Len(nal))
           = START_CODE_SHORT

\* the non-parameter NALs of the last unit, each behind its u32be length: the
\* drawn IDR, or the IDR or slice that ends a unit of the catalogue
C11_NonParameterNals ==
    LET last(nal) == CarriesLast(tr.unit, nal)
        one(nal) == BigEndian(Len(nal), 4) \o nal
    IN  IF tr.parts # NoParts THEN one(tr.parts.I)
        ELSE IF tr.t.kind = "h264" /\ last(H264_IDR) THEN one(H264_IDR)
        ELSE IF tr.t.kind = "h264" /\ last(H264_SLICE) THEN one(H264_SLICE)
        ELSE IF tr.t.kind = "h265" /\ last(H265_IDR) THEN one(H265_IDR)
        ELSE IF tr.t.kind = "h265" /\ last(H265_SLICE) THEN one(H265_SLICE)
        ELSE << >>

\* the last unit is of the catalogue, or its drawn NALs hold no start code
\* and its parameter sets do not end in a 00 byte
C11_CleanUnit ==
    tr.parts # NoParts =>
        /\ ~HoldsStartCode(tr.parts.S)
        /\ ~HoldsStartCode(tr.parts.P)
        /\ ~HoldsStartCode(tr.parts.I)
        /\ ~EndsInZero(tr.parts.S)
        /\ ~EndsInZero(tr.parts.P)

\* what C11 says of a unit submitted after a reconfigure
C11_LaterUnitTranslated ==
    /\ ~tr.res.thrown
    /\ ~tr.res.error
    /\ tr.res.chunk # NullBytes
    /\ tr.res.chunk = C11_NonParameterNals

\* what C11 says apart from the later units: a delta unit before any
\* reconfigure returns no chunk, a reconfigure leaves no pending parameter
\* set, and hasDescription holds ever after
C11_Latch ==
    /\ (tr.step > 0 /\ tr.unit.type = "delta" /\ ~tr.configuredBefore)
          => (tr.res.chunk = NullBytes /\ ~tr.res.configure)
    /\ tr.res.configure
          => (tr.t.vps = NullBytes /\ tr.t.sps = NullBytes /\ tr.t.pps = NullBytes)
    /\ tr.configured => tr.t.hasDescription

C12_VdpErroredLatch ==
    vdp.errored =>
        /\ vdp'.errored
        /\ vdp'.op = "submit" =>
              /\ vdp'.calls = << >>
              /\ ~vdp'.thrown
              /\ vdp'.bufferedUnits = vdp.bufferedUnits
              /\ vdp'.t = vdp.t
              /\ vdp'.decoder = vdp.decoder

\* MediaSourceDecoder: errored stays set, and a submitDecodeUnit on an errored
\* decoder leaves the translator alone, pushes no segment and appends none
C12_MseErroredLatch ==
    mse.errored =>
        /\ mse'.errored
        /\ mse'.op = "submit" =>
              /\ ~mse'.thrown
              /\ mse'.t = mse.t
              /\ mse'.buffers = mse.buffers
              /\ mse'.pushed = mse.pushed
              /\ mse'.appended = mse.appended
              /\ mse'.sourceBuffersCreated = mse.sourceBuffersCreated
        /\ mse'.op = "updateend" => mse'.appended = mse.appended

\* C12: in VideoDecoderPipe and MediaSourceDecoder the errored flag, once set
\* (failed negotiation in setup, decoder error callback, source-buffer error
\* event, translator error), is never cleared, and every later
\* submitDecodeUnit returns without buffering the unit, without invoking the
\* translator and without calling decoder.decode/configure or appendBuffer.
C12_ErroredLatch ==
    [][ C12_VdpErroredLatch /\ C12_MseErroredLatch ]_vars

\* a key unit was submitted to a pipe whose set-up decoder had reported an
\* error, and nothing was done with it
C12_Witness ==
    /\ vdp.errored
    /\ vdp.decoderSetupFinished
    /\ vdp.decoder.state = "closed"
    /\ ~vdp.cleaned
    /\ vdp.op = "submit"
    /\ vdp.opUnit.type = "key"
    /\ vdp.calls = << >>

\* of the MediaSourceDecoder: a unit was submitted after a source-buffer error
C12_MseWitness ==
    /\ mse.errored
    /\ mse.hasVideoSize
    /\ mse.op = "submit"
    /\ mse.appended # << >>

\* a frame segment was written
SegmentWritten ==
    mp4.done /\ ~mp4.thrown

\* the boxes of the segment
SegmentBoxes ==
    { mp4.buffer.boxes[i] : i \in 1 .. Len(mp4.buffer.boxes) }

\* the 32-bit big-endian length field of the box is the number of bytes from
\* its first byte to its end
LengthFieldSpansBox(box) ==
    SubSeq(mp4.segment, box.begin + 1, box.begin + 4) = BigEndian(box.end - box.begin, 4)

\* the positions of the box that no put has written
UnwrittenIn(box) ==
    { p \in box.begin .. (box.end - 1) : p \notin mp4.buffer.written }

\* C13: every box written by putBox/putFullBox in a frame segment, at every
\* nesting level and including the tfdt box with its 64-bit base decode time,
\* has a 32-bit big-endian length field equal to the number of bytes written
\* for that box (8-byte header plus payload), with no unwritten bytes counted
\* in it.
C13_BoxLengths ==
    SegmentWritten =>
        \A box \in SegmentBoxes :
            /\ LengthFieldSpansBox(box)
            /\ UnwrittenIn(box) = { }

\* what the code writes: seven boxes whose length fields span them; the tfdt
\* box is 28 bytes long, of which the last 8 were never written, and these 8
\* bytes are the only unwritten ones of the segment
C13_TfdtCountsUnwrittenBytes ==
    SegmentWritten =>
        /\ Len(mp4.buffer.boxes) = 7
        /\ Len(mp4.segment) = 116 + Len(mp4.frame)
        /\ \A box \in SegmentBoxes :
              /\ LengthFieldSpansBox(box)
              /\ box.type = "tfdt" =>
                    /\ box.end - box.begin = 28
                    /\ UnwrittenIn(box) = (box.begin + 20) .. (box.begin + 27)
              /\ box.type \in { "mfhd", "tfhd", "trun", "mdat" } => UnwrittenIn(box) = { }
              /\ box.type \in { "traf", "moof" } =>
                    \E tfdt \in SegmentBoxes :
                        tfdt.type = "tfdt" /\ UnwrittenIn(box) = UnwrittenIn(tfdt)

(***************************************************************************)
(* C14: CanvasFrameDrawPipe holds at most one frame.  Of the frames        *)
(* submitted so far, every one that was replaced has had close() called on *)
(* it exactly once, the frame that is current has never been closed, at    *)
(* most one submitted frame is open, and no draw (on submit or from the    *)
(* animation-frame callback) has used a frame that had been closed.        *)
(***************************************************************************)
SubmittedFrames ==
    1..cv.submitted

C14_FrameOwnership ==
    /\ \A f \in SubmittedFrames :
           cv.closes[f] = (IF f = cv.currentFrame THEN 0 ELSE 1)
    /\ Cardinality({ f \in SubmittedFrames : cv.closes[f] = 0 }) <= 1
    /\ cv.submitted > 0 => cv.currentFrame = cv.submitted
    /\ ~cv.drewClosed

C14_Witness ==
    /\ cv.submitted = 3
    /\ ~cv.drawOnSubmit
    /\ cv.drawn = 3
    /\ cv.closes[1] = 1 /\ cv.closes[2] = 1 /\ cv.closes[3] = 0

(***************************************************************************)
(* C15: after the H.264 translator has processed a unit that carries an    *)
(* SPS NAL with the bytes profile_idc, constraint flags and level_idc      *)
(* behind its header byte, the decoder config's codec is "avc1." followed  *)
(* by each of the three bytes as exactly two lower-case hexadecimal        *)
(* digits.  A NAL of an Annex-B stream holds no start code and does not    *)
(* end in a 00 byte.                                                       *)
(***************************************************************************)
TwoHexDigits(n) ==
    << HexDigits[(n \div 16) + 1], HexDigits[(n % 16) + 1] >>

IsAnnexBNal(bytes) ==
    ~HoldsStartCode(bytes) /\ ~EndsInZero(bytes)

ParameterSetArray(nalUnitType, nal) ==
    << nalUnitType >> \o BigEndian(1, 2) \o BigEndian(Len(nal), 2) \o nal

H265DrawnUnitSubmitted ==
    tr.parts # NoParts /\ tr.t.kind = "h265"

C16_HvcCLayout ==
    H265DrawnUnitSubmitted =>
        LET V == tr.parts.V
            S == tr.parts.S
            P == tr.parts.P
            d == tr.t.description
        IN  /\ tr.res.configure
            /\ d # NullBytes
            /\ Len(d) = 23 + 15 + Len(V) + Len(S) + Len(P)
            /\ d[1] = 1
            /\ d[22] % 4 = 3
            /\ d[23] = 3
            /\ SubSeq(d, 24, Len(d)) = ParameterSetArray(32, V)
                                           \o ParameterSetArray(33, S)
                                           \o ParameterSetArray(34, P)

\* a description with a VPS of 8 bytes, synthesized after an earlier one
C16_Witness ==
    /\ H265DrawnUnitSubmitted
    /\ Len(tr.parts.V) = 8
    /\ tr.parts.S = H265_SPS
    /\ tr.configuredBefore
    /\ Len(tr.t.description) = 23 + 15 + 8 + Len(H265_SPS) + Len(tr.parts.P)
    /\ SubSeq(tr.t.description, 24, 28) = << 32, 0, 1, 0, 8 >>

(***************************************************************************)
(* C17: when decodeFloat on a live decoder has called the native decoder,  *)
(* it returns the native value if that is not negative, and if it is       *)
(* negative it raises an OpusError whose errorCode is the native value     *)
(* (-1..-7, with the message of that code) and leaves the caller's output  *)
(* array unwritten.                                                        *)
(***************************************************************************)
NativeDecoderCalled ==
    od.called

C17_NegativeSurfaces ==
    (NativeDecoderCalled /\ od.native < 0) =>
        /\ od.outcome = "OpusError"
        /\ od.value = od.native
        /\ od.message = getMessageFromCode(od.native)
        /\ od.message # "Unknown Opus error code"
        /\ ~od.written

C17_NativeResultSurfaces ==
    /\ C17_NegativeSurfaces
    /\ (NativeDecoderCalled /\ od.native >= 0) =>
           (od.outcome = "returned" /\ od.value = od.native)

\* decodeFloat with one frameSize throughout does return every count
C17_SameFrameSize ==
    (NativeDecoderCalled /\ od.native >= 0
        /\ od.outputBuffer.length \in { 0, od.channels * od.frameSize * 4 }) =>
            (od.outcome = "returned" /\ od.value = od.native)

(***************************************************************************)
(* C18: no operation of VideoDecoderPipe calls decoder.decode while the    *)
(* decoder is unconfigured (since its construction or its last reset),     *)
(* with a translator or without one.  The platform decoder answers such a  *)
(* call by throwing, which ends the operation: the call is the last one of *)
(* the operation and leaves the decoder unconfigured.                      *)
(***************************************************************************)
DecodeWhileUnconfigured(v) ==
    /\ v.thrown
    /\ v.calls # << >>
    /\ v.calls[Len(v.calls)].name = "decode"
    /\ v.decoder.state = "unconfigured"

C18_NoDecodeWhileUnconfigured ==
    ~DecodeWhileUnconfigured(vdp)

\* without a translator, setup and every reset configure the decoder at once
C18_WithoutTranslator ==
    vdp.translator = "none" => ~DecodeWhileUnconfigured(vdp)

\* with a translator the call is made for units that reach the decoder before
\* the translator has built a description: key units without parameter sets
C18_BeforeDescription ==
    DecodeWhileUnconfigured(vdp) =>
        /\ vdp.op = "submit"
        /\ vdp.translator # "none"
        /\ ~vdp.t.hasDescription

(***************************************************************************)
(* C19: a pollRequestIdr that finds a backlog (estimated delay above       *)
(* 200 ms and more than 2 queued units) with requestedIdr clear requests   *)
(* an IDR itself: the call returns true, resets the underlying decoder,    *)
(* whose queue is empty afterwards, and sets requestedIdr, with a          *)
(* translator attached as without one.  A poll that finds no backlog       *)
(* touches the decoder not at all and returns true only for the base.      *)
(***************************************************************************)
OwnRequestDue(v) ==
    Backlog(v) /\ ~v.requestedIdr

PollStep ==
    vdp'.op = "poll"

OwnRequestResetsDecoder ==
    (PollStep /\ OwnRequestDue(vdp)) =>
        /\ vdp'.opResult
        /\ vdp'.requestedIdr
        /\ MadeCall(vdp', "reset")
        /\ vdp'.decoder.decodeQueueSize = 0

NoOwnRequestWithoutBacklog ==
    (PollStep /\ ~Backlog(vdp)) =>
        /\ vdp'.calls = << >>
        /\ vdp'.decoder = vdp.decoder
        /\ ~vdp.baseHasPoll => (~vdp'.opResult /\ vdp'.requestedIdr = vdp.requestedIdr)

C19_OwnRequestResets ==
    [][ OwnRequestResetsDecoder /\ NoOwnRequestWithoutBacklog ]_vars

\* without a translator the own request resets and configures the decoder
C19_WithoutTranslator ==
    [][ /\ vdp.translator = "none" => OwnRequestResetsDecoder
        /\ NoOwnRequestWithoutBacklog ]_vars

\* with a translator the own request is returned and latched, and the decoder
\* is left alone with its queue
C19_WithTranslator ==
    [][ (PollStep /\ OwnRequestDue(vdp) /\ vdp.translator # "none") =>
            /\ vdp'.opResult
            /\ vdp'.requestedIdr
            /\ vdp'.calls = << >>
            /\ vdp'.decoder = vdp.decoder ]_vars

(***************************************************************************)
(* C20: a unit submitted before setup has finished is appended to the      *)
(* buffer and no decoder call is made for it; setup leaves the buffer as   *)
(* it is; and the first submitDecodeUnit after a successful setup takes    *)
(* every buffered unit, in arrival order, and then its own unit past the   *)
(* buffering to the translator and decoder, and leaves the buffer empty.   *)
(***************************************************************************)
SubmitStep ==
    vdp'.op = "submit" /\ ~vdp.errored

BufferedUntilSetup ==
    /\ (SubmitStep /\ ~vdp.decoderSetupFinished) =>
           /\ vdp'.bufferedUnits = Append(vdp.bufferedUnits, vdp'.opUnit)
           /\ vdp'.calls = << >>
           /\ vdp'.processed = << >>
    /\ vdp'.op \in { "setup", "poll", "output" } =>
           vdp'.bufferedUnits = vdp.bufferedUnits

DrainedInOrder ==
    (SubmitStep /\ vdp.decoderSetupFinished) =>
        /\ vdp'.bufferedUnits = << >>
        /\ Len(vdp'.processed) >= Len(vdp.bufferedUnits)
        /\ SubSeq(vdp'.processed, 1, Len(vdp.bufferedUnits)) = vdp.bufferedUnits
        /\ Len(vdp'.processed) > Len(vdp.bufferedUnits) =>
               vdp'.processed = vdp.bufferedUnits \o << vdp'.opUnit >>

C20_BufferedThenDrained ==
    [][ BufferedUntilSetup /\ DrainedInOrder ]_vars

\* what holds of every step: the units taken past the buffering are the first
\* of the buffered units and the new one, in order, and all of them unless a
\* decoder call threw
C20_DrainedUntilThrow ==
    [][ /\ BufferedUntilSetup
        /\ (SubmitStep /\ vdp.decoderSetupFinished) =>
              /\ vdp'.bufferedUnits = << >>
              /\ \E n \in 1 .. (Len(vdp.bufferedUnits) + 1) :
                    vdp'.processed
                        = SubSeq(vdp.bufferedUnits \o << vdp'.opUnit >>, 1, n)
              /\ ~vdp'.thrown =>
                    vdp'.processed = vdp.bufferedUnits \o << vdp'.opUnit >> ]_vars

(***************************************************************************)
(* C21: every init segment in the append queue of the MediaSourceDecoder   *)
(* is immediately followed by a key-frame segment with sequence number 1,  *)
(* also after a submit that fails because the first NAL it emits is not an *)
(* IDR.                                                                    *)
(***************************************************************************)
IsFirstKeySegment(segment) ==
    /\ segment.kind = "frame"
    /\ segment.isKeyframe
    /\ segment.sequenceNumber = 1

InitFollowedByKey(segments) ==
    \A i \in 1 .. Len(segments) :
        segments[i].kind = "init" =>
            /\ i < Len(segments)
            /\ IsFirstKeySegment(segments[i + 1])

C21_InitFollowedByKey ==
    InitFollowedByKey(mse.pushed)


\* a submit pushed an init segment and threw before it pushed a frame segment
InitLeftAlone ==
    /\ mse.op = "submit"
    /\ mse.thrown
    /\ mse.opPushed = 1
    /\ mse.pushed[Len(mse.pushed)].kind = "init"
    /\ mse.opUnit = Unit("key", AnnexB(<< 4, 4 >>, << H264_SPS, H264_PPS >>), 0)

C21_NeverLeftAlone ==
    ~InitLeftAlone

(***************************************************************************)
(* C22: while the MediaSourceDecoder has accepted no IDR, every delta unit *)
(* submitted is dropped and counted in droppedFrames (so that after 60     *)
(* drops pollRequestIdr answers true and restarts the count); accepting a  *)
(* configuring key unit sets the count to zero.                            *)
(***************************************************************************)
\* submitDecodeUnit of a delta unit by a decoder that has latched no error
\* and accepted no IDR
DeltaWhileAwaitingIdr ==
    /\ mse'.op = "submit"
    /\ Len(mse'.submitted) = Len(mse.submitted) + 1
    /\ mse'.opUnit.type = "delta"
    /\ mse.needIdr
    /\ ~mse.errored

C22_DeltaDroppedAndCounted ==
    [][DeltaWhileAwaitingIdr =>
            /\ mse'.opPushed = 0
            /\ mse'.droppedFrames = mse.droppedFrames + 1]_vars

\* what holds: before the translator has built a description the delta unit
\* is dropped and the count stays as it was
C22_DeltaDroppedNotCounted ==
    [][DeltaWhileAwaitingIdr /\ ~mse.t.hasDescription =>
            /\ mse'.opPushed = 0
            /\ mse'.buffers = mse.buffers
            /\ mse'.droppedFrames = mse.droppedFrames]_vars

\* the count is zero once an IDR has been accepted
C22_ZeroAfterIdr ==
    ~mse.needIdr => mse.droppedFrames = 0

(***************************************************************************)
(* C23: with a translator attached, one submitDecodeUnit of a live         *)
(* VideoDecoderPipe makes these decoder calls and no others: when the      *)
(* translator returns configure, reset, configure with that description    *)
(* and, with requestedIdr cleared, one decode of the translated chunk with *)
(* the unit's type, timestamp and duration; when it returns no configure,  *)
(* that decode alone; when it returns no chunk, none.                      *)
(***************************************************************************)
\* a submit that reaches the translator: the pipe is set up with nothing
\* buffered and its decoder has not been closed
TranslatedSubmit ==
    /\ SubmitStep
    /\ vdp.decoderSetupFinished
    /\ vdp.translator # "none"
    /\ vdp.bufferedUnits = << >>
    /\ vdp.decoder.state # "closed"

DecodeOf(unit, chunk) ==
    [ name |-> "decode", type |-> unit.type, data |-> chunk,
      timestamp |-> unit.timestampMicroseconds,
      duration |-> unit.durationMicroseconds ]

CallsFor(r, unit) ==
    IF r.res.thrown \/ r.res.error \/ r.res.chunk = NullBytes THEN << >>
    ELSE IF r.res.configure
        THEN << Call("reset", "", << >>), Call("configure", "", r.t.description),
                DecodeOf(unit, r.res.chunk) >>
    ELSE << DecodeOf(unit, r.res.chunk) >>

TranslatedCalls ==
    TranslatedSubmit =>
        LET r == TranslatorSubmit(vdp.t, vdp'.opUnit)
        IN  /\ vdp'.calls = CallsFor(r, vdp'.opUnit)
            /\ (r.res.chunk # NullBytes /\ r.res.configure /\ ~vdp'.thrown) =>
                    ~vdp'.requestedIdr
            /\ (r.res.chunk = NullBytes \/ ~r.res.configure) =>
                    vdp'.requestedIdr = vdp.requestedIdr

C23_TranslatedCalls ==
    [][TranslatedCalls]_vars

\* a submit has reconfigured the decoder and decoded the chunk of a unit
\* whose timestamp is not zero
C23_Witness ==
    /\ vdp.op = "submit"
    /\ vdp.translator # "none"
    /\ ~vdp.thrown
    /\ Len(vdp.calls) = 3
    /\ vdp.calls[3].name = "decode"
    /\ vdp.calls[3].duration = UnitDurationMicroseconds

\* a submit has decoded a chunk without a reconfiguration
C23_WitnessDecodeOnly ==
    /\ vdp.op = "submit"
    /\ vdp.translator # "none"
    /\ ~vdp.thrown
    /\ Len(vdp.calls) = 1
    /\ vdp.calls[1].timestamp > 0

(***************************************************************************)
(* C24: a VideoDecoderPipe without a translator owes a key frame after     *)
(* setup and after every decoder reset; while it does, a delta unit makes  *)
(* no decode call; from the first key unit on every unit is given to       *)
(* decoder.decode as it was submitted, in submission order.                *)
(***************************************************************************)
\* the decode calls for units processed in this order, by a pipe that owes
\* a key frame or not
RECURSIVE RawDecodes(_, _)
RawDecodes(units, needsKeyFrame) ==
    IF units = << >> THEN << >>
    ELSE IF Head(units).type # "key" /\ needsKeyFrame
        THEN RawDecodes(Tail(units), TRUE)
    ELSE << DecodeOf(Head(units), Head(units).data) >>
            \o RawDecodes(Tail(units), FALSE)

IsPrefix(s, t) ==
    Len(s) <= Len(t) /\ SubSeq(t, 1, Len(s)) = s

\* a submit by a pipe that is set up without a translator
RawSubmit ==
    /\ SubmitStep
    /\ vdp.decoderSetupFinished
    /\ vdp.translator = "none"

RawUnitsDecoded ==
    RawSubmit =>
        LET units == vdp.bufferedUnits \o << vdp'.opUnit >>
            calls == RawDecodes(units, vdp.needsKeyFrame)
        IN  /\ ~vdp'.thrown => vdp'.calls = calls
            /\ vdp'.thrown => IsPrefix(vdp'.calls, calls)
            /\ (vdp'.calls = << >>) = vdp'.needsKeyFrame

\* setup and every decoder reset leave the pipe owing a key frame
KeyFrameOwedAfterReset ==
    /\ vdp'.translator = "none"
    /\ ~vdp'.thrown
    /\ \/ vdp'.op = "setup" /\ vdp'.decoderSetupFinished
       \/ vdp'.op # "submit" /\ MadeCall(vdp', "reset")
    => vdp'.needsKeyFrame

C24_RawUnits ==
    [][RawUnitsDecoded /\ KeyFrameOwedAfterReset]_vars

\* after the reset of a poll a delta unit was dropped
C24_Witness ==
    /\ vdp.op = "submit"
    /\ vdp.translator = "none"
    /\ vdp.decoderSetupFinished
    /\ vdp.opUnit.type = "delta"
    /\ vdp.needsKeyFrame
    /\ vdp.calls = << >>
    /\ vdp.requestedIdr

\* a delta unit was decoded behind its key unit
C24_WitnessDecoded ==
    /\ vdp.op = "submit"
    /\ vdp.translator = "none"
    /\ vdp.opUnit.type = "delta"
    /\ ~vdp.thrown
    /\ Len(vdp.calls) = 1
    /\ vdp.calls[1].data = vdp.opUnit.data

(***************************************************************************)
(* C25: setup of the VideoDecoderPipe selects the first configuration the  *)
(* platform supports, probing the in-band codec with {prefer-hardware,     *)
(* optimizeForLatency}, with {optimizeForLatency} and plain, and then, for *)
(* H.264 and H.265, the out-of-band codec with the same three; the pipe is *)
(* errored exactly when no probe is supported, and its decoder is then     *)
(* never configured.  A translator is attached exactly when the three      *)
(* in-band probes of an H.264 or H.265 codec have failed (C25_Setup); the  *)
(* claim has it attached exactly when an out-of-band configuration is      *)
(* selected (C25_TranslatorIffOutOfBand).                                  *)
(***************************************************************************)
\* setup finishes with these answers of the platform to the probes
SetupFinishes(inBand, outOfBand) ==
    /\ vdp.setupPhase = "pending"
    /\ vdp' = [ VdpSetupOp(VdpBegin(vdp, "setup", NoUnit), inBand, outOfBand)
                  EXCEPT !.setupPhase = "done" ]

HasOutOfBand(codec) ==
    codec \in { "H264", "H265" }

Lowest(S) ==
    CHOOSE x \in S : \A y \in S : x <= y

\* band and variant the claim's order selects; band "none" when no probe is
\* supported
FirstSupported(codec, inBand, outOfBand) ==
    IF inBand # { } THEN [ band |-> "in", variant |-> Lowest(inBand) ]
    ELSE IF HasOutOfBand(codec) /\ outOfBand # { }
        THEN [ band |-> "out", variant |-> Lowest(outOfBand) ]
    ELSE [ band |-> "none", variant |-> 0 ]

\* the selection of the order is the one the pipe holds after setup
SelectedInOrder(first) ==
    /\ vdp'.configVariant = first.variant
    /\ vdp'.hasConfig = (first.band # "none")
    /\ first.band = "in" =>
            vdp'.t.codec = VIDEO_DECODER_CODECS_IN_BAND(vdp.setupCodec)
    /\ first.band = "out" =>
            vdp'.t.codec = VIDEO_DECODER_CODECS_OUT_OF_BAND(vdp.setupCodec)
    /\ vdp'.errored = (first.band = "none")
    /\ first.band = "none" => ~MadeCall(vdp', "configure")

\* a pipe whose setup selected nothing does not configure its decoder
UnconfiguredWithoutSelection ==
    (vdp'.setupPhase = "done" /\ ~vdp'.hasConfig) =>
        /\ vdp'.decoder.state # "configured"
        /\ ~MadeCall(vdp', "configure")

C25_TranslatorIffOutOfBand ==
    [][\A inBand \in SUBSET { 1, 2, 3 }, outOfBand \in SUBSET { 1, 2, 3 } :
          SetupFinishes(inBand, outOfBand) =>
              LET first == FirstSupported(vdp.setupCodec, inBand, outOfBand)
              IN  /\ SelectedInOrder(first)
                  /\ (vdp'.translator # "none") = (first.band = "out")]_vars

C25_Setup ==
    [][/\ \A inBand \in SUBSET { 1, 2, 3 }, outOfBand \in SUBSET { 1, 2, 3 } :
            SetupFinishes(inBand, outOfBand) =>
                LET first == FirstSupported(vdp.setupCodec, inBand, outOfBand)
                IN  /\ SelectedInOrder(first)
                    /\ (vdp'.translator # "none") =
                            (inBand = { } /\ HasOutOfBand(vdp.setupCodec))
       /\ UnconfiguredWithoutSelection]_vars

\* setup selected the out-of-band codec with its second variant
C25_Witness ==
    /\ vdp.setupPhase = "done"
    /\ vdp.op = "setup"
    /\ vdp.configVariant = 2
    /\ vdp.translator = "h265"
    /\ vdp.decoderSetupFinished

\* setup of an H.264 pipe found no probe supported
C25_WitnessErrored ==
    /\ vdp.setupPhase = "done"
    /\ vdp.setupCodec = "H264"
    /\ vdp.errored
    /\ ~vdp.hasConfig
    /\ vdp.translator = "h264"

(***************************************************************************)
(* C26: the MediaSourceDecoder appends every segment to the source buffer  *)
(* that was current when the segment was produced; a segment that waits in *)
(* the queue while a reconfiguration creates a new source buffer is never  *)
(* appended to the new one.                                                *)
(***************************************************************************)
C26_AppendedToOwnBuffer ==
    \A i \in 1 .. Len(mse.appended) :
        mse.appendedTo[i] = mse.pushedTo[i]

\* a frame segment produced for the first source buffer was appended to the
\* second one, ahead of the init segment of the second
StaleSegmentAppended ==
    /\ Len(mse.appended) >= 2
    /\ mse.appended[2].kind = "frame"
    /\ mse.pushedTo[2] = 1
    /\ mse.appendedTo[2] = 2
    /\ Len(mse.buffers) >= 1
    /\ mse.buffers[1].kind = "init"

C26_NoStaleSegment ==
    ~StaleSegmentAppended

\* what holds: the segments appended are the first of the segments pushed,
\* in that order, whatever source buffer they were produced for
C26_AppendedInQueueOrder ==
    /\ Len(mse.appended) <= Len(mse.pushed)
    /\ \A i \in 1 .. Len(mse.appended) :
        /\ mse.appended[i] = mse.pushed[i]
        /\ mse.appendedTo[i] >= mse.pushedTo[i]

(***************************************************************************)
(* C27: the MediaSourceDecoder never calls appendBuffer on a source buffer *)
(* that is updating; the queued segments are appended one at a time, in    *)
(* the order they were queued, each exactly once, however submitDecodeUnit *)
(* calls and updateend events interleave.                                  *)
(***************************************************************************)
AppendedOnceInOrder ==
    /\ ~mse'.appendedWhileUpdating
    /\ mse'.appended \o mse'.buffers = mse'.pushed
    /\ Len(mse'.appended) <= Len(mse.appended) + 1
    /\ Len(mse'.appended) = Len(mse.appended) + 1 => mse'.updating

C27_AppendedOnceInOrder ==
    [][AppendedOnceInOrder]_vars

\* an updateend has appended a segment that had waited, and another waits
C27_Witness ==
    /\ mse.op = "updateend"
    /\ Len(mse.appended) >= 2
    /\ mse.updating
    /\ mse.buffers # << >>

(***************************************************************************)
(* C28: every unit for which the translator returns configure makes the    *)
(* MediaSourceDecoder create a new source buffer, the previous one being   *)
(* removed from the MediaSource before the new one is added, so that at    *)
(* most one is attached at any time; with that unit the sequence numbers   *)
(* restart at 1 and the shifted timebase restarts at 0.                    *)
(***************************************************************************)
\* submitDecodeUnit, by a decoder that is set up, open and not errored, of
\* a unit for which the translator returns configure
ConfiguringSubmit ==
    /\ mse'.op = "submit"
    /\ Len(mse'.submitted) = Len(mse.submitted) + 1
    /\ mse.setupCalled
    /\ mse.open
    /\ ~mse.errored
    /\ LET r == TranslatorSubmit(mse.t, mse'.opUnit)
       IN  /\ ~r.res.thrown
           /\ ~r.res.error
           /\ r.res.chunk # NullBytes
           /\ r.res.configure

NewSourceBufferCreated ==
    /\ mse'.opCreated = 1
    /\ mse'.sourceBuffer = mse'.sourceBuffersCreated
    /\ mse'.sourceBuffer # mse.sourceBuffer
    /\ mse'.attached = { mse'.sourceBuffer }
    /\ mse'.maxAttached <= 1

NumberingRestarted ==
    /\ mse'.sequenceNumber = 1
    /\ mse'.timestampMicrosecondsShift = mse'.opUnit.timestampMicroseconds * mse.fps
    /\ mse'.lastTimestampMicroseconds = 0
    /\ mse'.opPushed = 2 =>
        /\ mse'.pushed[Len(mse'.pushed)].sequenceNumber = 1
        /\ mse'.pushed[Len(mse'.pushed)].baseDecodeTime = << 0, 0 >>

\* addSourceBuffer threw: the old source buffer is removed, none is attached,
\* no error is latched and the numbering is as it was
SourceBufferRejected ==
    /\ mse'.thrown
    /\ mse'.opCreated = 0
    /\ mse'.sourceBuffer = 0
    /\ mse'.attached = { }
    /\ ~mse'.errored
    /\ mse'.sequenceNumber = mse.sequenceNumber
    /\ mse'.buffers = mse.buffers

C28_EveryConfigureCreates ==
    [][ConfiguringSubmit => NewSourceBufferCreated /\ NumberingRestarted]_vars

\* what holds: a new source buffer and a new numbering unless addSourceBuffer
\* throws, and never more than one source buffer attached
C28_CreatesUnlessRejected ==
    [][/\ ConfiguringSubmit =>
            \/ NewSourceBufferCreated /\ NumberingRestarted
            \/ SourceBufferRejected
       /\ Cardinality(mse'.attached) <= 1
       /\ mse'.maxAttached <= 1]_vars

\* the source buffer of an accepted stream was removed by a configure unit
\* whose type the platform rejected, and a later delta unit waits in a queue
\* that nothing appends
C28_NoQueueWithoutSourceBuffer ==
    ~ /\ mse.sourceBuffersCreated = 1
      /\ mse.sourceBuffer = 0
      /\ ~mse.errored
      /\ mse.everThrown
      /\ mse.op = "submit"
      /\ mse.opUnit.type = "delta"
      /\ mse.opPushed = 1
      /\ ~mse.updating

(***************************************************************************)
(* C29: when no error is latched and every appendBuffer is followed by an  *)
(* updateend, every segment pushed to the queue of the MediaSourceDecoder  *)
(* is eventually given to appendBuffer, and the queue is empty once the    *)
(* source buffer is idle and no further unit arrives.                      *)
(***************************************************************************)
\* the most segments MaxMseUnits units can push
MaxPushed == 2 * MaxMseUnits

C29_EveryPushedAppended ==
    \A k \in 1 .. MaxPushed :
        (Len(mse.pushed) >= k) ~> (Len(mse.appended) >= k \/ mse.errored)

\* what holds: the queue drains unless an exception has left a submit
C29_AppendedUnlessThrown ==
    \A k \in 1 .. MaxPushed :
        (Len(mse.pushed) >= k) ~>
            (Len(mse.appended) >= k \/ mse.errored \/ mse.everThrown)

\* the queue of a decoder without error holds a segment, its source buffer
\* is idle, and so no updateend will come
QueueStuck ==
    /\ ~mse.errored
    /\ mse.buffers # << >>
    /\ mse.sourceBuffer # 0
    /\ ~mse.updating

C29_NeverStuck ==
    ~QueueStuck

\* without an exception the queue is empty whenever the source buffer is idle
C29_IdleMeansEmpty ==
    (~mse.errored /\ ~mse.everThrown /\ ~mse.updating) => mse.buffers = << >>

(***************************************************************************)
(* C30: a translator returns configure for a unit only if the unit itself  *)
(* carried every parameter set of the description (SPS and PPS for H.264;  *)
(* VPS, SPS and PPS for H.265); sets left over from an earlier unit are    *)
(* never combined with sets of a later unit.                               *)
(***************************************************************************)
\* the unit holds a NAL of this type
CarriesNal(unit, kind, type) ==
    \E i \in 1 .. Len(ScanNals(unit.data, 0, 0)) :
        LET nal == ScanNals(unit.data, 0, 0)[i]
        IN  /\ nal # << >>
            /\ type = IF kind = "h264" THEN h264NalType(nal[1])
                      ELSE h265NalType(nal[1])

CarriesAllSets(unit, kind) ==
    IF kind = "h264"
    THEN CarriesNal(unit, kind, 7) /\ CarriesNal(unit, kind, 8)
    ELSE CarriesNal(unit, kind, 32) /\ CarriesNal(unit, kind, 33)
            /\ CarriesNal(unit, kind, 34)

C30_SetsFromSameUnit ==
    tr.res.configure => CarriesAllSets(tr.unit, tr.t.kind)

\* configure was returned for the key unit PPS, IDR: its description holds
\* the SPS an earlier unit left behind
LeftoverSpsCombined ==
    /\ tr.res.configure
    /\ tr.unit = Unit("key", AnnexB(<< 3, 3 >>, << H264_PPS, H264_IDR >>), 0)
    /\ tr.t.description = h264MakeAvcC(H264_SPS, H264_PPS)

C30_NoLeftoverCombined ==
    ~LeftoverSpsCombined

\* what holds: a unit that returns configure carries at least one of the
\* sets, and no set is left over after it
C30_SomeSetFromUnit ==
    tr.res.configure =>
        /\ tr.t.sps = NullBytes
        /\ tr.t.pps = NullBytes
        /\ IF tr.t.kind = "h264"
           THEN CarriesNal(tr.unit, "h264", 7) \/ CarriesNal(tr.unit, "h264", 8)
           ELSE \/ CarriesNal(tr.unit, "h265", 32)
                \/ CarriesNal(tr.unit, "h265", 33)
                \/ CarriesNal(tr.unit, "h265", 34)

(***************************************************************************)
(* C31: for a key unit that carries no complete set of parameter sets,     *)
(* submitted when no description has ever been produced, the translator    *)
(* returns error = false, configure = null and a chunk that holds the      *)
(* unit's non-parameter NALs behind their lengths, and hasDescription      *)
(* stays false.                                                            *)
(***************************************************************************)
\* the last unit was a key unit of the catalogue without a complete set of
\* parameter sets, and no unit before it returned configure
IncompleteKeyUnit ==
    /\ tr.step > 0
    /\ tr.parts = NoParts
    /\ tr.unit.type = "key"
    /\ ~CarriesAllSets(tr.unit, tr.t.kind)
    /\ ~tr.configuredBefore

ForwardedWithoutConfigure ==
    /\ ~tr.res.error
    /\ ~tr.res.thrown
    /\ ~tr.res.configure
    /\ tr.res.chunk = C11_NonParameterNals
    /\ ~tr.t.hasDescription

C31_IncompleteKeyForwarded ==
    IncompleteKeyUnit => ForwardedWithoutConfigure

\* what holds: the same when the translator held no parameter set of an
\* earlier unit
C31_ForwardedWithoutLeftover ==
    [][(/\ tr.t.vps = NullBytes
        /\ tr.t.sps = NullBytes
        /\ tr.t.pps = NullBytes
        /\ tr'.step = tr.step + 1) =>
            (IncompleteKeyUnit => ForwardedWithoutConfigure)']_vars

\* the key unit PPS, IDR completed the SPS a unit before it had left behind
C31_NoLeftoverCompletes ==
    ~ /\ IncompleteKeyUnit
      /\ tr.res.configure
      /\ tr.t.hasDescription
      /\ tr.unit = Unit("key", AnnexB(<< 3, 3 >>, << H264_PPS, H264_IDR >>), 0)

(***************************************************************************)
(* C32: the chunk a translator returns for a unit it processes is the      *)
(* concatenation, in input order, of u32be(length) || bytes over exactly   *)
(* the NALs of the unit that are not parameter sets (H.264 types 7 and 8,  *)
(* H.265 types 32, 33 and 34).                                             *)
(***************************************************************************)
RECURSIVE StripZeros(_)
StripZeros(bytes) ==
    IF bytes # << >> /\ bytes[Len(bytes)] = 0
    THEN StripZeros(SubSeq(bytes, 1, Len(bytes) - 1))
    ELSE bytes

\* The NAL units of an Annex B byte stream: what stands between the start
\* code prefixes 00 00 01, without the zero bytes that lead up to the next
\* prefix; nothing between two prefixes is no NAL unit.
RECURSIVE AnnexBNals(_, _, _)
AnnexBNals(data, i, current) ==
    LET piece == StripZeros(current)
        found == IF piece = << >> THEN << >> ELSE << piece >>
    IN  IF i > Len(data) THEN found
        ELSE IF i + 2 <= Len(data) /\ SubSeq(data, i, i + 2) = START_CODE_SHORT
            THEN found \o AnnexBNals(data, i + 3, << >>)
        ELSE AnnexBNals(data, i + 1, Append(current, data[i]))

IsParameterSet(kind, nal) ==
    IF kind = "h264" THEN h264NalType(nal[1]) \in { 7, 8 }
    ELSE h265NalType(nal[1]) \in { 32, 33, 34 }

RECURSIVE LengthPrefixed(_, _)
LengthPrefixed(kind, nals) ==
    IF nals = << >> THEN << >>
    ELSE ( IF IsParameterSet(kind, Head(nals)) THEN << >>
           ELSE BigEndian(Len(Head(nals)), 4) \o Head(nals) )
         \o LengthPrefixed(kind, Tail(nals))

\* the last unit was processed: it got a chunk
UnitProcessed ==
    /\ tr.step > 0
    /\ ~tr.res.error
    /\ ~tr.res.thrown
    /\ tr.res.chunk # NullBytes

C32_ChunkOfNonParameterNals ==
    UnitProcessed =>
        tr.res.chunk = LengthPrefixed(tr.t.kind, AnnexBNals(tr.unit.data, 1, << >>))

\* the chunk for the key unit IDR, 00, IDR holds the zero byte as the last
\* byte of the first NAL
TrailingZeroKept ==
    /\ UnitProcessed
    /\ tr.t.kind = "h264"
    /\ tr.unit = Unit("key", AnnexB(<< 4, 4 >>, << H264_IDR \o << 0 >>, H264_IDR >>), 0)
    /\ tr.res.chunk = BigEndian(3, 4) \o H264_IDR \o << 0 >>
                        \o BigEndian(2, 4) \o H264_IDR

C32_NoTrailingZeroKept ==
    ~TrailingZeroKept

\* the chunk for the key unit IDR, start code holds an entry of length 0
EmptyEntryEmitted ==
    /\ UnitProcessed
    /\ tr.t.kind = "h264"
    /\ tr.unit = Unit("key", AnnexB(<< 4, 3 >>, << H264_IDR, << >> >>), 0)
    /\ tr.res.chunk = BigEndian(2, 4) \o H264_IDR \o << 0, 0, 0, 0 >>

C32_NoEmptyEntryEmitted ==
    ~EmptyEntryEmitted

\* what holds: the same for the units of the catalogue, whose start codes
\* each enclose a NAL unit
C32_CatalogueChunks ==
    (UnitProcessed /\ tr.unit \in UnitsOf(tr.t.kind)) =>
        tr.res.chunk = LengthPrefixed(tr.t.kind, AnnexBNals(tr.unit.data, 1, << >>))

\* C33: a unit given to decodeAndPlay before setup (or before the decoder
\* module has loaded) is held and played after setup, and does not latch the
\* pipe into the errored state: once setup is done, the module has loaded, the
\* native constructor reports no error and the native decoder returns a count
\* of samples, the unit that is submitted is played, and with it every unit
\* that was submitted early.
AudioReady(setup) ==
    /\ setup # NoSetup
    /\ Len(setup.mapping) >= setup.channels
    /\ \A index \in 1 .. setup.channels : setup.mapping[index] \in 0 .. 255

DecodedAfterSetup ==
    \A inputLength \in AudioDataLengths :
        ( /\ ApDecodeAndPlay(inputLength, OPUS_OK, 240)
          /\ AudioReady(ap.setupData)
          /\ ap.hasModule )
        => /\ ~ap'.errored
           /\ \A id \in ap.early \cup { ap'.submitted } :
                \E i \in 1 .. Len(ap'.played) : ap'.played[i] = id

C33_EarlyUnitsHeldAndPlayed ==
    [][DecodedAfterSetup]_vars

\* what the pipe does with a unit: it is played exactly when the pipe is not
\* errored, setup is done and a decoder exists or can be made, and the native
\* decoder returns a count of samples; it is dropped otherwise and never
\* played later
PlayedOrDropped ==
    \A inputLength \in AudioDataLengths, error \in NativeCreateErrors,
       native \in NativeDecodeResults(240) :
        ApDecodeAndPlay(inputLength, error, native)
        => ap'.played =
             IF /\ ~ap.errored
                /\ AudioReady(ap.setupData)
                /\ ap.hasDecoder \/ (ap.hasModule /\ error = OPUS_OK)
                /\ native >= 0
             THEN Append(ap.played, ap'.submitted)
             ELSE ap.played

C33_PlayedOrDropped ==
    [][PlayedOrDropped]_vars

\* a unit given before setup latches the pipe
C33_LatchedBeforeSetup ==
    [][ (\E inputLength \in AudioDataLengths : ApDecodeAndPlay(inputLength, OPUS_OK, 240))
        /\ ap.setupData = NoSetup => ap'.errored ]_vars

\* a unit given to the pipe before setup, and one given after setup that was
\* not played
EarlyUnitLatched ==
    /\ 1 \in ap.early
    /\ AudioReady(ap.setupData)
    /\ ap.hasModule
    /\ ap.submitted >= 2
    /\ ap.played = << >>

C33_NoEarlyUnitLatched ==
    ~EarlyUnitLatched

\* a unit given after setup and before the module loaded is dropped and the
\* pipe goes on with the next
EarlyUnitDropped ==
    /\ 1 \in ap.early
    /\ ~ap.errored
    /\ ap.played = << 2 >>

C33_NoEarlyUnitDropped ==
    ~EarlyUnitDropped

\* MediaSourceDecoder holds no unit either: before the MediaSource is open no
\* segment is queued for any unit
C33_MseNothingQueuedBeforeOpen ==
    ~mse.open => mse.pushed = << >> /\ mse.buffers = << >>

\* a key unit with its parameter sets, submitted before the MediaSource is
\* open: addSourceBuffer throws out of submitDecodeUnit and the unit is gone
EarlyMseUnitLost ==
    /\ mse.op = "submit"
    /\ ~mse.open
    /\ mse.opUnit.type = "key"
    /\ mse.thrown
    /\ mse.t.hasDescription
    /\ mse.pushed = << >>

C33_NoEarlyMseUnitLost ==
    ~EarlyMseUnitLost

\* C34: a put of ByteBuffer without an index (putU8, putU16, putU32, putU64,
\* putU8Array) that does not throw writes its bytes at the old position and
\* advances the position by exactly their number; with an index, the index 0
\* included, it writes them at the index and leaves the position unchanged.
PutReturned ==
    /\ bb.op = "put"
    /\ bb.kind \in PutKinds
    /\ ~bb.buffer.thrown

WrittenAt(at) ==
    \A k \in 1 .. Len(bb.data) :
        /\ at + k <= Len(bb.buffer.bytes)
        /\ bb.buffer.bytes[at + k] = bb.data[k]

PutFrameEffect ==
    IF bb.index = Undefined
    THEN /\ bb.buffer.position = bb.before.position + Len(bb.data)
         /\ WrittenAt(bb.before.position)
    ELSE /\ bb.buffer.position = bb.before.position
         /\ WrittenAt(bb.index)

C34_PutFrameEffect ==
    PutReturned => PutFrameEffect

\* the puts through useDataView alone, and putU8Array with an index other
\* than 0 or without one, have that effect
C34_PutFrameEffectOfViews ==
    PutReturned /\ bb.kind # "U64" /\ ~(bb.kind = "U8Array" /\ bb.index = 0)
    => PutFrameEffect

\* putU64 moves the position 8 bytes more than the claim says, with an index
\* or without
C34_PutU64Moves8More ==
    PutReturned /\ bb.kind = "U64"
    => /\ bb.buffer.position =
            bb.before.position + 8 + (IF bb.index = Undefined THEN 8 ELSE 0)
       /\ WrittenAt(IF bb.index = Undefined THEN bb.before.position ELSE bb.index)

\* putU8Array(data, 0) on a buffer whose position is not 0 writes at the
\* position
ArrayPutAtIndex0 ==
    /\ PutReturned
    /\ bb.kind = "U8Array"
    /\ bb.index = 0
    /\ bb.before.position > 0
    /\ ~WrittenAt(0)

C34_NoArrayPutAtIndex0 ==
    ~ArrayPutAtIndex0

PutU64WithoutIndex ==
    /\ PutReturned
    /\ bb.kind = "U64"
    /\ bb.index = Undefined
    /\ bb.buffer.position = bb.before.position + 16

C34_NoPutU64WithoutIndex ==
    ~PutU64WithoutIndex

\* C35: in every state a ByteBuffer reaches by put, get, flip and reset, the
\* calls that throw included, 0 <= position <= limit <= capacity.
C35_PositionLimitCapacity ==
    /\ 0 <= bb.buffer.position
    /\ bb.buffer.position <= bb.buffer.limit
    /\ bb.buffer.limit <= bb.buffer.capacity

\* neither bound is ever negative
C35_NotNegative ==
    0 <= bb.buffer.position /\ 0 <= bb.buffer.limit

\* a put that throws for the capacity leaves position and limit as they were
C35_ThrowingPutChangesNothing ==
    bb.op = "put" /\ bb.kind \in PutKinds /\ bb.buffer.thrown
    => /\ bb.buffer.position = bb.before.position
       /\ bb.buffer.limit = bb.before.limit

\* a get that throws "failed to read over the limit" has moved the position
\* beyond the limit
ReadOverLimit ==
    /\ bb.op = "get"
    /\ bb.buffer.thrown
    /\ bb.before.position <= bb.before.limit
    /\ bb.buffer.position > bb.buffer.limit

C35_NoReadOverLimit ==
    ~ReadOverLimit

\* a put that does not extend the limit, after reset
PutBeyondLimit ==
    /\ bb.op = "put"
    /\ bb.kind \in { "F32", "Utf8Raw" }
    /\ ~bb.buffer.thrown
    /\ bb.before.position <= bb.before.limit
    /\ bb.buffer.position > bb.buffer.limit

C35_NoPutBeyondLimit ==
    ~PutBeyondLimit

\* the limit beyond the capacity: flip after putU64 has moved the position
\* beyond the array
LimitBeyondCapacity ==
    /\ bb.op = "flip"
    /\ bb.buffer.limit > bb.buffer.capacity

C35_NoLimitBeyondCapacity ==
    ~LimitBeyondCapacity

\* C36: in VideoDecoderPipe the first chunk given to decoder.decode after a
\* reset or a (re)configure of the decoder has type key, with a translator or
\* without, also for delta units that carry parameter sets.
\* The decoder owes a key chunk at call i of a step when no decode stands
\* between the last reset or configure and i; for a configured decoder
\* that is its flag when the step begins.
KeyChunkOwedAt(i) ==
    LET earlier == { j \in 1 .. i - 1 :
                        vdp'.calls[j].name \in { "reset", "configure", "decode" } }
    IN  IF earlier = { }
        THEN vdp.decoder.state = "configured" /\ vdp.decoder.keyChunkRequired
        ELSE vdp'.calls[CHOOSE j \in earlier : \A k \in earlier : k <= j].name # "decode"

FirstChunkIsKey ==
    \A i \in 1 .. Len(vdp'.calls) :
        vdp'.calls[i].name = "decode" /\ KeyChunkOwedAt(i)
        => vdp'.calls[i].type = "key"

C36_FirstChunkIsKey ==
    [][FirstChunkIsKey]_vars

\* without a translator the first chunk is a key chunk
C36_FirstChunkIsKeyUntranslated ==
    [][vdp.translator = "none" /\ vdp'.translator = "none" => FirstChunkIsKey]_vars

\* a delta unit with parameter sets has reset and configured the decoder and
\* was then given to decode as a delta chunk, which the decoder refuses
DeltaChunkAfterConfigure ==
    /\ vdp.op = "submit"
    /\ vdp.opUnit.type = "delta"
    /\ Len(vdp.calls) = 3
    /\ vdp.calls[1].name = "reset"
    /\ vdp.calls[2].name = "configure"
    /\ vdp.calls[3].name = "decode"
    /\ vdp.calls[3].type = "delta"
    /\ vdp.thrown

C36_NoDeltaChunkAfterConfigure ==
    ~DeltaChunkAfterConfigure

\* C37: a translator never emits an entry of length 0 into a chunk: a start
\* code at offset 0, two adjacent start codes, a start code at the very end
\* of the unit and empty unit data produce no entry.
\* The lengths of the entries of a chunk, read off their prefixes.
RECURSIVE EntryLengths(_)
EntryLengths(chunk) ==
    IF Len(chunk) < 4 THEN { }
    ELSE LET length == ((chunk[1] * 256 + chunk[2]) * 256 + chunk[3]) * 256 + chunk[4]
         IN  { length } \cup EntryLengths(SubSeq(chunk, 5 + length, Len(chunk)))

C37_NoZeroLengthEntry ==
    UnitProcessed => 0 \notin EntryLengths(tr.res.chunk)

\* a start code at offset 0 produces no entry, and no unit of the catalogue
\* gives an entry of length 0
C37_NoZeroLengthEntryInCatalogue ==
    (UnitProcessed /\ tr.unit \in UnitsOf(tr.t.kind)) =>
        0 \notin EntryLengths(tr.res.chunk)

\* empty unit data: the chunk is the one entry of length 0
EmptyDataEntry ==
    /\ UnitProcessed
    /\ tr.unit.data = << >>
    /\ tr.res.chunk = << 0, 0, 0, 0 >>

C37_NoEmptyDataEntry ==
    ~EmptyDataEntry

\* two adjacent start codes: an entry of length 0 before the NAL
AdjacentStartCodesEntry ==
    /\ UnitProcessed
    /\ tr.t.kind = "h264"
    /\ tr.unit.data = << 0, 0, 1, 0, 0, 1 >> \o H264_IDR
    /\ tr.res.chunk = << 0, 0, 0, 0 >> \o BigEndian(2, 4) \o H264_IDR

C37_NoAdjacentStartCodesEntry ==
    ~AdjacentStartCodesEntry

\* a start code at the very end: an entry of length 0 after the NAL
StartCodeAtEndEntry ==
    /\ UnitProcessed
    /\ tr.t.kind = "h265"
    /\ tr.unit.data = << 0, 0, 0, 1 >> \o H265_IDR \o << 0, 0, 1 >>
    /\ 0 \in EntryLengths(tr.res.chunk)

C37_NoStartCodeAtEndEntry ==
    ~StartCodeAtEndEntry

\* C38: every scratch-stack save made while an OpusMultistreamDecoder is
\* created is followed by exactly one restore to the saved top on every exit
\* path of the constructor, the path that rejects a mapping entry outside
\* 0..255 included; the scratch top after the call equals the top before it.
ConstructorCalled ==
    /\ ap.op = "create"
    /\ ap.setupData # NoSetup

C38_ScratchTopRestored ==
    /\ ap.module.saves = ap.module.restores
    /\ ConstructorCalled => ap.module.sp = ap.topBefore

\* the constructor restores the top on the paths that reach the native
\* constructor, whatever error that reports, and saves nothing when the
\* mapping is shorter than the channels
C38_RestoredUnlessEntryRejected ==
    ConstructorCalled /\ AudioReady(ap.setupData)
    => /\ ap.module.saves = ap.module.restores
       /\ ap.module.sp = ap.topBefore
       /\ ap.created # NoCreate

C38_NothingSavedForShortMapping ==
    ConstructorCalled /\ Len(ap.setupData.mapping) < ap.setupData.channels
    => /\ ap.module.saves = 0
       /\ ap.module.sp = ScratchTop
       /\ ap.thrown = OPUS_BAD_ARG

\* the mapping entry 256 was rejected after the save: the scratch top stays
\* lowered by the 16 bytes of the mapping
ScratchLeaked ==
    /\ ConstructorCalled
    /\ ap.setupData.mapping = << 0, 256 >>
    /\ ap.thrown = OPUS_BAD_ARG
    /\ ap.errored
    /\ ap.module.saves = 1
    /\ ap.module.restores = 0
    /\ ap.module.sp = ap.topBefore - 16

C38_NoScratchLeaked ==
    ~ScratchLeaked

\* C39: on a live OpusMultistreamDecoder, decodeFloat with an output array of
\* at least channels * frameSize floats fails only when the native decoder
\* returns a negative value, whatever frame sizes the earlier calls used (a
\* call with frameSize 960 followed by one with frameSize 480 both succeed).
\* decodeFloat calls the native decoder exactly when the decoder is live and
\* the output array has the room (it throws before the call otherwise).
C39_FailsOnlyOnNativeError ==
    od.called => ((od.outcome # "returned") <=> od.native < 0)

\* the call also fails when an earlier call left an output buffer longer
\* than this call needs
C39_FailsAlsoAfterLargerFrame ==
    od.called =>
        ((od.outcome # "returned") <=>
            \/ od.native < 0
            \/ /\ od.frameSize > 0
               /\ od.outputBuffer.length > od.channels * od.frameSize * 4)

\* the native decoder is called for a live decoder and an output array of
\* at least channels * frameSize floats
NativeCalledWhenLive ==
    \A inputLength \in OpusInputLengths, frameSize \in OpusFrameSizes,
       outputFloats \in { c * f : c \in OpusChannels, f \in OpusFrameSizes } :
        OdDecodeFloat(inputLength, outputFloats, frameSize, OPUS_INVALID_PACKET)
        => (od'.called <=> (od.ptr # 0 /\ outputFloats >= od.channels * frameSize))

C39_NativeCalledWhenLive ==
    [][NativeCalledWhenLive]_vars

\* frameSize 960, then frameSize 480 with the native decoder returning 480:
\* the second call throws "BufferOutOfBounds"
SmallerFrameFailed ==
    /\ od.ptr # 0
    /\ od.calls = 2
    /\ od.frameSize = 480
    /\ od.outputBuffer.length = od.channels * 960 * 4
    /\ od.called
    /\ od.native = 480
    /\ od.outcome = "BufferOutOfBounds"

C39_NoSmallerFrameFailed ==
    ~SmallerFrameFailed

\* C40: OpusAudioDecoderPipe creates the native multistream decoder with the
\* values of the setup in the matching roles: setup.streams as the native
\* stream count and setup.coupledStreams as the native coupled-stream count,
\* also when the two differ.
NativeCreateCalled ==
    /\ ap.created # NoCreate
    /\ ap.setupData # NoSetup

C40_SetupValuesInMatchingRoles ==
    NativeCreateCalled =>
        /\ ap.created.Fs = ap.setupData.sampleRate
        /\ ap.created.channels = ap.setupData.channels
        /\ ap.created.streams = ap.setupData.streams
        /\ ap.created.coupled_streams = ap.setupData.coupledStreams

\* the sample rate and the channels are in their roles, and the stream counts
\* are when they are equal
C40_RolesMatchForEqualCounts ==
    NativeCreateCalled =>
        /\ ap.created.Fs = ap.setupData.sampleRate
        /\ ap.created.channels = ap.setupData.channels
        /\ ap.setupData.streams = ap.setupData.coupledStreams
            => /\ ap.created.streams = ap.setupData.streams
               /\ ap.created.coupled_streams = ap.setupData.coupledStreams

\* the two counts always arrive exchanged
C40_CountsExchanged ==
    NativeCreateCalled =>
        /\ ap.created.streams = ap.setupData.coupledStreams
        /\ ap.created.coupled_streams = ap.setupData.streams

\* the 5.1 setup, 4 streams of which 2 coupled: the native constructor is
\* asked for 2 streams of which 4 coupled
SurroundCountsExchanged ==
    /\ NativeCreateCalled
    /\ ap.setupData.channels = 6
    /\ ap.setupData.streams = 4
    /\ ap.setupData.coupledStreams = 2
    /\ ap.created.streams = 2
    /\ ap.created.coupled_streams = 4

C40_NoSurroundCountsExchanged ==
    ~SurroundCountsExchanged

====
